---- MODULE Spec2Model ----
(***************************************************************************)
(* typeit: a builder (_TypeConstructor) derives, from a type descriptor    *)
(* and an override set, a tree of schema nodes and returns the pair        *)
(* (decode, encode) bound to the root node.                                *)
(*                                                                         *)
(* The model follows one builder object: its override set and its memo,    *)
(* the build calls made on it (first resolve pass, then the fix-up loop    *)
(* over the forward-reference table), and the decode / encode calls made   *)
(* on the pair the last successful build call returned.                    *)
(***************************************************************************)
EXTENDS Integers, Sequences, FiniteSets, TLC

VARIABLES
    steps,      \* builders derived so far with & from the initial builder
    overrides,  \* self.overrides of the builder: key -> setting
    memo,       \* self.memo of the builder: type -> node
    unknown,    \* Structure.unknown of the record schema type built for a type
    regs,       \* the forward-reference tables of the builder's build calls
    pc,         \* "idle" | "fixup" | "ready" | "failed"
    sess,       \* the running / last build call: typ, overrides, memo, root, ...
    call,       \* the last decode / encode call on the returned pair
    threads     \* the decode / encode call each thread has in flight

vars == <<steps, overrides, memo, unknown, regs, pc, sess, call, threads>>

-----------------------------------------------------------------------------
(* Bounds of the model.                                                    *)

\* build calls followed on one builder object
MaxBuilds == 2
\* override items composed onto the initial builder, one after another
MaxOverrideSteps == 1

-----------------------------------------------------------------------------
(* Finite maps (pyrsistent pmap / dict).                                   *)

EmptyMap == [x \in {} |-> ""]
MapGet(m, k, d) == IF k \in DOMAIN m THEN m[k] ELSE d
MapSet(m, k, v) == [x \in (DOMAIN m) \cup {k} |-> IF x = k THEN v ELSE m[x]]
MapUpdate(m, n) ==
    [x \in (DOMAIN m) \cup (DOMAIN n) |-> IF x \in DOMAIN n THEN n[x] ELSE m[x]]
Map1(k, v) == [x \in {k} |-> v]

SeqMax(S) == CHOOSE i \in S : \A j \in S : j <= i

-----------------------------------------------------------------------------
(* Python values, raw and typed.  Every value is a record <<c, t, v>>:     *)
(* t is the exact runtime type, c the class of a record or variant value,  *)
(* v the content, filed under the type so that values of different types   *)
(* are different without their contents being compared.                    *)

Val(t, v)  == [c |-> "", t |-> t, v |-> [x \in {t} |-> v]]
Null       == Val("null", 0)        \* colander.null
None       == Val("none", 0)
Required   == Val("required", 0)    \* colander.required
VInt(n)    == Val("int", n)
VFloat(n)  == Val("float", n)       \* the float n.0
VStr(s)    == Val("str", s)
VBool(b)   == Val("bool", b)
VBytes(s)  == Val("bytes", s)
VList(s)   == Val("list", s)
VTuple(s)  == Val("tuple", s)
VDict(f)   == Val("dict", f)
VRec(cls, f) == [Val("rec", f) EXCEPT !.c = cls]    \* a NamedTuple instance
VVar(cls, f) == [Val("var", f) EXCEPT !.c = cls]    \* a data-holding variant

\* the content of a value
Payload(x) == x.v[x.t]

\* bool(x) of a Python value
Truthy(x) ==
    CASE x.t \in {"none", "null"} -> FALSE
      [] x.t = "bool"  -> Payload(x)
      [] x.t \in {"int", "float"} -> Payload(x) # 0
      [] x.t \in {"str", "bytes"} -> Payload(x) # ""
      [] x.t \in {"list", "tuple"} -> Len(Payload(x)) > 0
      [] x.t = "dict" -> DOMAIN Payload(x) # {}
      [] OTHER -> TRUE

\* str(x): the text of a Python value
DigitStr(n) == CASE n = 0 -> "0" [] n = 1 -> "1" [] n = 2 -> "2" [] n = 5 -> "5"
                 [] OTHER -> "n"
PyStr(x) ==
    CASE x.t = "str"   -> Payload(x)
      [] x.t = "int"   -> DigitStr(Payload(x))
      [] x.t = "float" -> DigitStr(Payload(x)) \o ".0"
      [] x.t = "bool"  -> IF Payload(x) THEN "True" ELSE "False"
      [] x.t = "none"  -> "None"
      [] OTHER -> "<repr>"

\* int(x): <<TRUE, n>> or <<FALSE, 0>> when int() raises
PyInt(x) ==
    CASE x.t \in {"int", "float"} -> <<TRUE, Payload(x)>>
      [] x.t = "bool" -> <<TRUE, IF Payload(x) THEN 1 ELSE 0>>
      [] x.t = "str" ->
            IF Payload(x) \in {"0", "1", "2", "5"}
            THEN <<TRUE, CHOOSE n \in {0, 1, 2, 5} : DigitStr(n) = Payload(x)>>
            ELSE <<FALSE, 0>>
      [] OTHER -> <<FALSE, 0>>

\* float(x): as PyInt, the result being the float n.0
PyFloat(x) ==
    CASE x.t \in {"int", "float"} -> <<TRUE, Payload(x)>>
      [] x.t = "bool" -> <<TRUE, IF Payload(x) THEN 1 ELSE 0>>
      [] x.t = "str" ->
            IF \E n \in {0, 1, 2, 5} : Payload(x) \in {DigitStr(n), DigitStr(n) \o ".0"}
            THEN <<TRUE, CHOOSE n \in {0, 1, 2, 5} :
                            Payload(x) \in {DigitStr(n), DigitStr(n) \o ".0"}>>
            ELSE <<FALSE, 0>>
      [] OTHER -> <<FALSE, 0>>

-----------------------------------------------------------------------------
(* Type descriptors.  A type is named by an id; Types gives its shape.     *)
(* Direct references between types are acyclic; cycles go through          *)
(* forward references, as in Python.                                       *)

TPrim      == [kind |-> "prim",   args |-> <<>>, fields |-> <<>>, target |-> ""]
TUnion(a)  == [kind |-> "union",  args |-> a,    fields |-> <<>>, target |-> ""]
TSeq(a)    == [kind |-> "seq",    args |-> <<a>>, fields |-> <<>>, target |-> ""]
TTuple(a)  == [kind |-> "tuple",  args |-> a,    fields |-> <<>>, target |-> ""]
TRecord(f) == [kind |-> "record", args |-> <<>>, fields |-> f,    target |-> ""]
TSum(v)    == [kind |-> "sum",    args |-> <<>>, fields |-> v,    target |-> ""]
\* ForwardRef(name); target "" is a reference that was never evaluated
TRef(t)    == [kind |-> "fref",   args |-> <<>>, fields |-> <<>>, target |-> t]

Field(n, t)     == [name |-> n, type |-> t, hasdef |-> FALSE, def |-> Null]
FieldD(n, t, d) == [name |-> n, type |-> t, hasdef |-> TRUE,  def |-> d]

Types ==
    [ Any        |-> TPrim,
      bytes      |-> TPrim,
      str        |-> TPrim,
      int        |-> TPrim,
      float      |-> TPrim,
      bool       |-> TPrim,
      U_sif      |-> TUnion(<<"str", "int", "float">>),
      U_fis      |-> TUnion(<<"float", "int", "str">>),
      Opt_int    |-> TUnion(<<"int", "None">>),
      Seq_int    |-> TSeq("int"),
      Tup_is     |-> TTuple(<<"int", "str">>),
      Tup_var    |-> TTuple(<<"int", "...">>),
      Tup_si     |-> TTuple(<<"str", "int">>),
      Seq_X      |-> TSeq("X"),
      X          |-> TRecord(<<Field("x", "int")>>),
      D          |-> TRecord(<<Field("a", "int"), Field("b", "Opt_int"),
                               FieldD("c", "int", VInt(0))>>),
      N          |-> TRecord(<<Field("s", "str")>>),
      ref_Tree   |-> TRef("Tree"),
      Opt_rTree  |-> TUnion(<<"ref_Tree", "None">>),
      Tree       |-> TRecord(<<Field("left", "Opt_rTree"),
                               Field("right", "Opt_rTree"),
                               Field("value", "Any")>>),
      ref_Q      |-> TRef("Q"),
      ref_P      |-> TRef("P"),
      Opt_rP     |-> TUnion(<<"ref_P", "None">>),
      P          |-> TRecord(<<Field("q", "ref_Q")>>),
      Q          |-> TRecord(<<Field("v", "int"), Field("p", "Opt_rP")>>),
      V          |-> TRecord(<<Field("t", "Tup_var")>>),
      ref_V      |-> TRef("V"),
      W          |-> TRecord(<<Field("v", "ref_V")>>),
      ref_J      |-> TRef(""),
      Seq_rJ     |-> TSeq("ref_J"),
      J          |-> TUnion(<<"int", "Seq_rJ">>),
      Either_Left  |-> TRecord(<<Field("err", "str")>>),
      Either_Right |-> TRecord(<<Field("n", "int")>>),
      Either     |-> TSum(<<Field("Left", "Either_Left"),
                            Field("Right", "Either_Right")>>),
      EV         |-> TRecord(<<Field("e", "Either"), Field("t", "Tup_var")>>) ]

\* str.lower() on the variant names of the model
Lower(s) == CASE s = "Left" -> "left" [] s = "Right" -> "right" [] OTHER -> s

-----------------------------------------------------------------------------
(* Override sets: a map from keys to settings.  Keys are the three flags,  *)
(* "fld:<Record>.<attr>" for a field mapping and "ext:<type>" for a type   *)
(* extension.                                                              *)

NonStrictPrimitives == "flag:NonStrictPrimitives"
SumTypeDict         == "flag:SumTypeDict"
GlobalNameOverride  == "flag:GlobalNameOverride"
FieldKey(t, attr)   == "fld:" \o t \o "." \o attr
ExtKey(t)           == "ext:" \o t

NO_OVERRIDES == EmptyMap

\* the default setting of a flag
DefaultSetting(flag) ==
    CASE flag = NonStrictPrimitives -> "True"
      [] flag = SumTypeDict         -> "type"
      [] flag = GlobalNameOverride  -> "Identity"

\* the name transforms a caller passes to GlobalNameOverride
Transform(fn, s) ==
    CASE fn = "Identity" -> s
      [] fn = "prefix"   -> "p-" \o s
      [] OTHER -> s

get_global_name_overrider(ov) == MapGet(ov, GlobalNameOverride, "Identity")

-----------------------------------------------------------------------------
(* Schema nodes.  A node is <<cls, st, name, missing, children>>; st is    *)
(* the schema type object (node.typ).                                      *)

MkNode(cls, st, children) ==
    [cls |-> cls, st |-> st, name |-> "", missing |-> Required,
     children |-> children]
SchemaNode(st) == MkNode("SchemaNode", st, <<>>)
NoNode == MkNode("", [k |-> ""], <<>>)

\* the two registries of primitive schema types; one instance per entry
PrimKind(t) ==
    CASE t = "Any" -> "AcceptEverything" [] t = "bytes" -> "Bytes"
      [] t = "str" -> "Str" [] t = "int" -> "Int"
      [] t = "float" -> "Float" [] t = "bool" -> "Bool"
PrimitiveNames == {"Any", "bytes", "str", "int", "float", "bool"}
PRIMITIVES_REGISTRY(nonstrict, t) == [k |-> PrimKind(t), strict |-> ~nonstrict]

\* clone_schema_node: a new outermost node, same schema type, same children
clone_schema_node(node) == node

\* a forward-reference table: entries <<ref, bound, node>> in insertion order
RegHas(reg, ref) == \E i \in 1..Len(reg) : reg[i].ref = ref
RegIdx(reg, ref) == CHOOSE i \in 1..Len(reg) : reg[i].ref = ref
\* a table whose every entry is written as bound
RegPut_bound(reg, ref, bound, node) ==
    LET e == [ref |-> ref, bound |-> TRUE, node |-> node] IN
    IF RegHas(reg, ref) THEN [reg EXCEPT ![RegIdx(reg, ref)] = e]
    ELSE Append(reg, e)

RegPut(reg, ref, bound, node) ==
    LET e == [ref |-> ref, bound |-> bound, node |-> node] IN
    IF RegHas(reg, ref) THEN [reg EXCEPT ![RegIdx(reg, ref)] = e]
    ELSE Append(reg, e)

\* the results of a recognizer / of resolve: the node and the threaded state,
\* or the TypeError raised
ROk(node, st)  == [ok |-> TRUE,  node |-> node,   st |-> st, nodes |-> <<>>]
RFail(st)      == [ok |-> FALSE, node |-> NoNode, st |-> st, nodes |-> <<>>]

IsEllipsis(a) == a = "..."

\* the element of a one-element set: Once({F(x) : x \in {e}}) is F(e) with e
\* evaluated once
Once(S) == CHOOSE x \in S : TRUE

RECURSIVE decide_node_type(_, _, _)
RECURSIVE ResolveAll(_, _, _)

\* resolve a sequence of types left to right, threading memo and table
ResolveAll(ts, ov, st) ==
    LET cons(r, rs) == IF ~rs.ok THEN rs
                       ELSE [rs EXCEPT !.nodes = <<r.node>> \o rs.nodes]
        rest(r) == IF ~r.ok THEN r
                   ELSE Once({cons(r, rs) : rs \in {ResolveAll(Tail(ts), ov, r.st)}})
    IN IF ts = <<>> THEN ROk(NoNode, st)
       ELSE Once({rest(r) : r \in {decide_node_type(Head(ts), ov, st)}})

_maybe_node_for_forward_ref(t, ov, st) ==
    ROk(SchemaNode([k |-> "ForwardReferenceType", ref |-> t, reg |-> st.reg]),
        [st EXCEPT !.frefs = RegPut(st.frefs, t, FALSE, NoNode)])

_maybe_node_for_overridden(t, ov, st) ==
    ROk(SchemaNode([k |-> ov[ExtKey(t)], strict |-> TRUE, ext |-> t]), st)

_maybe_node_for_primitive(t, ov, st) ==
    ROk(SchemaNode(PRIMITIVES_REGISTRY(NonStrictPrimitives \in DOMAIN ov, t)), st)

_maybe_node_for_union(t, ov, st) ==
    LET variants == Types[t].args
        allow_empty == \E i \in 1..Len(variants) : variants[i] = "None"
        kept == SelectSeq(variants, LAMBDA v : v # "None")
        variant_nodes(rs) ==
            [i \in 1..Len(kept) |->
                [typ |-> kept[i],
                 node |-> IF allow_empty
                          THEN [clone_schema_node(rs.nodes[i]) EXCEPT !.missing = None]
                          ELSE rs.nodes[i]]]
        union_node(rs) == SchemaNode(
            [k |-> "Union", variants |-> variant_nodes(rs),
             nonstrict |-> NonStrictPrimitives \in DOMAIN ov])
        finish(rs) ==
            IF ~rs.ok THEN rs
            ELSE ROk([union_node(rs) EXCEPT
                         !.missing = IF allow_empty THEN None ELSE @], rs.st)
    IN IF variants \in {<<"None", "Any">>, <<"Any", "None">>}
       THEN ROk([SchemaNode([k |-> "AcceptEverything", strict |-> TRUE, ext |-> t])
                    EXCEPT !.missing = None], st)
       ELSE Once({finish(rs) : rs \in {ResolveAll(kept, ov, st)}})

_maybe_node_for_sequence(t, ov, st) ==
    LET finish(r) ==
            IF ~r.ok THEN r
            ELSE ROk(MkNode("SequenceSchema", [k |-> "Sequence"], <<r.node>>), r.st)
    IN Once({finish(r) : r \in {decide_node_type(Types[t].args[1], ov, st)}})

\* the tuple recognizer without its test for an Ellipsis argument
_maybe_node_for_tuple_any(t, ov, st) ==
    LET inner_types == SelectSeq(Types[t].args, LAMBDA a : ~IsEllipsis(a))
        finish(rs) ==
            IF ~rs.ok THEN rs
            ELSE ROk(MkNode("TupleSchema", [k |-> "Tuple"], rs.nodes), rs.st)
    IN Once({finish(rs) : rs \in {ResolveAll(inner_types, ov, st)}})

_maybe_node_for_tuple(t, ov, st) ==
    LET inner_types == Types[t].args
        finish(rs) ==
            IF ~rs.ok THEN rs
            ELSE ROk(MkNode("TupleSchema", [k |-> "Tuple"], rs.nodes), rs.st)
    IN IF \E i \in 1..Len(inner_types) : IsEllipsis(inner_types[i])
       THEN RFail(st)
       ELSE Once({finish(rs) : rs \in {ResolveAll(inner_types, ov, st)}})

_maybe_node_for_sum_type(t, ov, st) ==
    LET vs == Types[t].fields
        \* node.typ.unknown = 'raise' on every variant's node
        unk(rs) == [x \in (DOMAIN rs.st.unk) \cup {vs[i].type : i \in 1..Len(vs)} |->
                       IF \E i \in 1..Len(vs) : vs[i].type = x THEN "raise"
                       ELSE rs.st.unk[x]]
        variant_nodes(rs) ==
            [i \in 1..Len(vs) |->
                [name |-> vs[i].name, value |-> Lower(vs[i].name),
                 typ |-> vs[i].type, node |-> rs.nodes[i]]]
        finish(rs) ==
            IF ~rs.ok THEN rs
            ELSE ROk(SchemaNode([k |-> "Sum", typ |-> t,
                                 variants |-> variant_nodes(rs),
                                 as_dict_key |-> MapGet(ov, SumTypeDict, "")]),
                     [rs.st EXCEPT !.unk = unk(rs)])
    IN Once({finish(rs) : rs \in
               {ResolveAll([i \in 1..Len(vs) |-> vs[i].type], ov, st)}})

\* the wire name -> attribute name map of a record, before the "local
\* optimisation": a dict comprehension, so a later field wins a shared key
WireOf(t, f, ov) ==
    MapGet(ov, FieldKey(t, f.name),
           Transform(get_global_name_overrider(ov), f.name))
DeserializeOverrides(t, ov) ==
    LET fs == Types[t].fields
        full == [w \in {WireOf(t, fs[i], ov) : i \in 1..Len(fs)} |->
                    fs[SeqMax({i \in 1..Len(fs) : WireOf(t, fs[i], ov) = w})].name]
        same == [n \in {fs[i].name : i \in 1..Len(fs)} |-> n]
    IN IF full = same THEN EmptyMap ELSE full

\* the name given to the child node of field f
SerializedFieldName(t, f, ov) ==
    LET globally_modified_field_name ==
            Transform(get_global_name_overrider(ov), f.name)
    IN IF DOMAIN DeserializeOverrides(t, ov) # {}
       THEN MapGet(ov, FieldKey(t, f.name), globally_modified_field_name)
       ELSE globally_modified_field_name

_maybe_node_for_user_type(t, ov, st) ==
    LET fs == Types[t].fields
        schema_type == [k |-> "Structure", typ |-> t,
                        attrs |-> [i \in 1..Len(fs) |-> fs[i].name],
                        deserialize_overrides |-> DeserializeOverrides(t, ov)]
        children(rs) ==
            [i \in 1..Len(fs) |->
                [clone_schema_node(rs.nodes[i]) EXCEPT
                    !.name = SerializedFieldName(t, fs[i], ov),
                    !.missing = IF fs[i].hasdef THEN fs[i].def ELSE @]]
        finish(rs) ==
            IF ~rs.ok THEN rs
            ELSE ROk(MkNode("SchemaNode", schema_type, children(rs)),
                     [rs.st EXCEPT !.unk = MapSet(@, t, "ignore")])
    IN Once({finish(rs) : rs \in
               {ResolveAll([i \in 1..Len(fs) |-> fs[i].type], ov, st)}})

\* the recognizers, in the order resolve tries them
PARSING_ORDER ==
    <<"forward_ref", "overridden", "none", "primitive", "type_var", "newtype",
      "union", "sequence", "tuple", "dict", "set", "literal", "sum_type",
      "subclass_based", "user_type">>

\* the test of a recognizer on the type: when it fails the recognizer returns
\* None, when it holds the recognizer returns a node or raises.  The types
\* of the model are no None, type variable, alias, mapping, set, literal or
\* enumeration; the record recognizer makes no test.
Recognizes(rec, t, ov) ==
    LET kind == Types[t].kind IN
    CASE rec = "forward_ref" -> kind = "fref"
      [] rec = "overridden"  -> ExtKey(t) \in DOMAIN ov
      [] rec = "primitive"   -> kind = "prim"
      [] rec = "union"       -> kind = "union"
      [] rec = "sequence"    -> kind = "seq"
      [] rec = "tuple"       -> kind = "tuple"
      [] rec = "sum_type"    -> kind = "sum"
      [] rec = "user_type"   -> TRUE
      [] OTHER               -> FALSE

\* attempt_find(typ, overrides, memo, forward_refs) of a recognizer whose
\* test holds
Recognizer(rec, t, ov, st) ==
    CASE rec = "forward_ref" -> _maybe_node_for_forward_ref(t, ov, st)
      [] rec = "overridden"  -> _maybe_node_for_overridden(t, ov, st)
      [] rec = "primitive"   -> _maybe_node_for_primitive(t, ov, st)
      [] rec = "union"       -> _maybe_node_for_union(t, ov, st)
      [] rec = "sequence"    -> _maybe_node_for_sequence(t, ov, st)
      [] rec = "tuple"       -> _maybe_node_for_tuple(t, ov, st)
      [] rec = "sum_type"    -> _maybe_node_for_sum_type(t, ov, st)
      [] rec = "user_type"   -> _maybe_node_for_user_type(t, ov, st)

\* the first of the recognizers, taken in the given order, whose test holds
FirstRecognizer(order, t, ov) ==
    LET applies == {i \in 1..Len(order) : Recognizes(order[i], t, ov)}
    IN order[CHOOSE i \in applies : \A j \in applies : i <= j]

\* a loop that tries the user extension after the built-in recognizers
AttemptFind_extension_late(t, ov, st) ==
    Recognizer(
        FirstRecognizer(
            SelectSeq(PARSING_ORDER, LAMBDA r : r \notin {"overridden", "user_type"})
                \o <<"overridden", "user_type">>, t, ov),
        t, ov, st)

\* the loop over PARSING_ORDER: the first recognizer that returns a node
\* ends it
AttemptFind(t, ov, st) ==
    Recognizer(FirstRecognizer(PARSING_ORDER, t, ov), t, ov, st)

\* resolve without the memo test
decide_node_type_no_memo(t, ov, st) ==
    LET store(r) == IF ~r.ok THEN r
                    ELSE [r EXCEPT !.st.memo = MapSet(r.st.memo, t, r.node)]
    IN Once({store(r) : r \in {AttemptFind(t, ov, st)}})

decide_node_type(t, ov, st) ==
    LET store(r) == IF ~r.ok THEN r
                    ELSE [r EXCEPT !.st.memo = MapSet(r.st.memo, t, r.node)]
    IN IF t \in DOMAIN st.memo THEN ROk(st.memo[t], st)
       ELSE Once({store(r) : r \in {AttemptFind(t, ov, st)}})

-----------------------------------------------------------------------------
(* Outcomes of a deserialize / serialize call: a value, a raised Invalid   *)
(* (with its sub-errors), or another exception.                            *)

\* positional: the node's schema type is a colander Positional (Sequence,
\* Tuple), whose sub-errors are keyed by position and not by node name
Invalid(name, msg, subs) ==
    [name |-> name, msg |-> msg, subs |-> subs, positional |-> FALSE]
NoErr == Invalid("", "", <<>>)
Ret(v)       == [s |-> "ok",      v |-> v,    e |-> NoErr, x |-> ""]
RaiseInv(e)  == [s |-> "invalid", v |-> Null, e |-> e,     x |-> ""]
RaiseExc(x)  == [s |-> "raise",   v |-> Null, e |-> NoErr, x |-> x]

\* frames a decode / encode call may nest before Python gives up
MaxDepth == 12

\* x is null; x in (Null, None); x == s for a str s
IsNull(x) == x.t = "null"
IsNullOrNone(x) == x.t \in {"null", "none"}
IsStr(x, s) == x.t = "str" /\ Payload(x) = s

\* a is b, for the schema type a of a node and an entry b of a registry
IsSchemaType(a, b) ==
    /\ a.k = b.k
    /\ DOMAIN a = {"k", "strict"}
    /\ a.strict = b.strict

\* bytes(n) of a non-negative int: n zero bytes
ZeroBytes(n) == IF n = 0 THEN "" ELSE "\\0*" \o DigitStr(n)

\* _strict_deserialize / _strict_serialize: TRUE when the value is let through
_strict_deserialize(allowed_type, cstruct) ==
    IsNullOrNone(cstruct) \/ cstruct.t = allowed_type
_strict_serialize(allowed_type, appstruct) ==
    IsNullOrNone(appstruct) \/ appstruct.t = allowed_type

AllowedType(k) ==
    CASE k = "Int" -> "int" [] k = "Float" -> "float"
      [] k = "Str" -> "str" [] k = "Bool" -> "bool" [] OTHER -> ""

\* colander.Number.deserialize with num = int / float
Number_deserialize(node, k, cstruct) ==
    LET n == IF k = "Int" THEN PyInt(cstruct) ELSE PyFloat(cstruct) IN
    IF ~(cstruct.t \in {"int", "float", "bool"}) /\ ~Truthy(cstruct)
    THEN Ret(Null)
    ELSE IF n[1] THEN Ret(IF k = "Int" THEN VInt(n[2]) ELSE VFloat(n[2]))
         ELSE RaiseInv(Invalid(node.name, "is not a number", <<>>))

\* colander.String.deserialize with allow_empty
String_deserialize(node, cstruct) ==
    IF IsStr(cstruct, "") THEN Ret(VStr(""))
    ELSE IF ~Truthy(cstruct) THEN Ret(Null)
    ELSE IF cstruct.t \in {"str", "bytes"} THEN Ret(cstruct)
    ELSE Ret(VStr(PyStr(cstruct)))

\* colander.Boolean.deserialize: false_choices ('false', '0'), no true_choices
Boolean_deserialize(node, cstruct) ==
    IF IsNull(cstruct) THEN Ret(Null)
    ELSE IF \/ cstruct.t = "bool" /\ ~Payload(cstruct)
            \/ cstruct.t = "int" /\ Payload(cstruct) = 0
            \/ cstruct.t = "str" /\ Payload(cstruct) \in {"false", "False", "0"}
         THEN Ret(VBool(FALSE))
         ELSE Ret(VBool(TRUE))

\* Bytes.serialize, which is Bytes.deserialize too
Bytes_serialize(node, strict, appstruct) ==
    LET supported_conversions ==
            IF strict THEN {"bytes"} ELSE {"int", "bool", "str", "bytes"}
    IN IF IsNull(appstruct) \/ IsStr(appstruct, "None") THEN Ret(None)
       ELSE IF appstruct.t \notin supported_conversions
            THEN RaiseInv(Invalid(node.name, "Cannot convert to bytes", <<>>))
       ELSE CASE appstruct.t = "str"   -> Ret(VBytes(Payload(appstruct)))
              [] appstruct.t = "bytes" -> Ret(appstruct)
              [] appstruct.t = "int"   -> Ret(VBytes(ZeroBytes(Payload(appstruct))))
              [] appstruct.t = "bool"  ->
                    Ret(VBytes(ZeroBytes(IF Payload(appstruct) THEN 1 ELSE 0)))

\* deserialize of the schema types of the two primitive registries
Primitive_deserialize(node, st, cstruct) ==
    IF st.k = "AcceptEverything" THEN Ret(cstruct)
    ELSE IF st.k = "Bytes" THEN Bytes_serialize(node, st.strict, cstruct)
    ELSE IF st.strict /\ ~_strict_deserialize(AllowedType(st.k), cstruct)
         THEN RaiseInv(Invalid(node.name, "strict type semantics", <<>>))
    ELSE CASE st.k \in {"Int", "Float"} -> Number_deserialize(node, st.k, cstruct)
           [] st.k = "Str"  -> String_deserialize(node, cstruct)
           [] st.k = "Bool" -> Boolean_deserialize(node, cstruct)

\* NonStrictInt.serialize / NonStrictFloat.serialize over Number.serialize
Number_serialize(node, k, appstruct) ==
    LET n == IF k = "Int" THEN PyInt(appstruct) ELSE PyFloat(appstruct) IN
    IF IsNullOrNone(appstruct) THEN Ret(None)
    ELSE IF n[1] THEN Ret(IF k = "Int" THEN VInt(n[2]) ELSE VFloat(n[2]))
         ELSE RaiseInv(Invalid(node.name, "is not a number", <<>>))

\* NonStrictStr.serialize over String.serialize
NonStrictStr_serialize(node, appstruct) ==
    IF IsNull(appstruct) THEN Ret(None)
    ELSE IF PyStr(appstruct) = "None" THEN Ret(None)
         ELSE Ret(VStr(PyStr(appstruct)))

\* NonStrictBool.serialize over Boolean.serialize
NonStrictBool_serialize(node, appstruct) ==
    IF IsNull(appstruct) THEN Ret(None)
    ELSE Ret(VBool(Truthy(appstruct)))

Primitive_serialize(node, st, appstruct) ==
    IF st.k = "AcceptEverything" THEN Ret(appstruct)
    ELSE IF st.k = "Bytes" THEN Bytes_serialize(node, st.strict, appstruct)
    ELSE IF st.strict /\ ~_strict_serialize(AllowedType(st.k), appstruct)
         THEN RaiseInv(Invalid(node.name, "strict type semantics", <<>>))
    ELSE CASE st.k \in {"Int", "Float"} -> Number_serialize(node, st.k, appstruct)
           [] st.k = "Str"  -> NonStrictStr_serialize(node, appstruct)
           [] st.k = "Bool" -> NonStrictBool_serialize(node, appstruct)

-----------------------------------------------------------------------------
(* Composite schema types.  Each deserialize / serialize below is the      *)
(* method of the class of that name; fuel counts the frames left.          *)

RECURSIVE SetToSeq(_)
SetToSeq(S) == IF S = {} THEN <<>>
               ELSE LET x == CHOOSE y \in S : TRUE IN <<x>> \o SetToSeq(S \ {x})

\* the characters of a string: kept for strings of at most one character,
\* longer strings keep their number of characters only
Chars(str) == IF Len(str) <= 1 THEN [i \in 1..Len(str) |-> VStr(str)]
              ELSE [i \in 1..Len(str) |-> VStr("?")]

\* iter(x) of a Python value: <<"ok", items>>, <<"no">> when x has no
\* __iter__, <<"TypeError">> when iterating raises
PyIter(x) ==
    CASE x.t \in {"list", "tuple"} -> <<"ok", Payload(x)>>
      [] x.t = "str"   -> <<"ok", Chars(Payload(x))>>
      [] x.t = "bytes" -> <<"ok", [i \in 1..Len(Payload(x)) |-> VInt(5)]>>
      [] x.t = "dict"  -> <<"ok", [i \in 1..Cardinality(DOMAIN Payload(x)) |->
                                      VStr(SetToSeq(DOMAIN Payload(x))[i])]>>
      [] x.t = "rec"   -> <<"ok", [i \in 1..Len(Types[x.c].fields) |->
                                      Payload(x)[Types[x.c].fields[i].name]]>>
      [] x.t = "var"   -> <<"TypeError", <<>> >>
      [] OTHER         -> <<"no", <<>> >>

RECURSIVE SchemaNode_deserialize(_, _, _)
RECURSIVE SchemaNode_serialize(_, _, _)

Callback(mode, subnode, subval, fuel) ==
    IF mode = "deserialize" THEN SchemaNode_deserialize(subnode, subval, fuel)
    ELSE SchemaNode_serialize(subnode, subval, fuel)

\* the sub-errors of the children that raised Invalid, by position
SubErrors(rs) ==
    SelectSeq([i \in 1..Len(rs) |-> [pos |-> i - 1, s |-> rs[i].s, e |-> rs[i].e]],
              LAMBDA q : q.s = "invalid")
FirstRaise(rs) == rs[CHOOSE i \in 1..Len(rs) :
                        /\ rs[i].s = "raise"
                        /\ \A j \in 1..(i - 1) : rs[j].s # "raise"]

\* the outcome of a composite node from the outcomes rs of its children:
\* another exception goes up at once, Invalid ones are collected
Collect(node, rs, value) ==
    IF \E i \in 1..Len(rs) : rs[i].s = "raise" THEN FirstRaise(rs)
    ELSE IF \E i \in 1..Len(rs) : rs[i].s = "invalid"
         THEN RaiseInv([Invalid(node.name, "", SubErrors(rs)) EXCEPT
                  !.positional = node.cls \in {"SequenceSchema", "TupleSchema"}])
    ELSE Ret(value)

\* colander.Mapping._impl on the dict value: every child pops its name
Mapping_impl(node, value, unk, mode, fuel) ==
    LET ch == node.children
        subval(i) == IF ch[i].name \in DOMAIN value
                        /\ \A j \in 1..(i - 1) : ch[j].name # ch[i].name
                     THEN value[ch[i].name] ELSE Null
        names == {ch[i].name : i \in 1..Len(ch)}
        result(rs) == [w \in names |->
                          rs[SeqMax({i \in 1..Len(ch) : ch[i].name = w})].v]
        finish(rs) ==
            IF \E i \in 1..Len(ch) : rs[i].s = "raise" THEN FirstRaise(rs)
            ELSE IF unk = "raise" /\ (DOMAIN value) \ names # {}
                 THEN RaiseInv(Invalid(node.name, "Unrecognized keys in mapping", <<>>))
            ELSE Collect(node, rs, VDict(result(rs)))
    IN finish([i \in 1..Len(ch) |-> Callback(mode, ch[i], subval(i), fuel)])

Structure_deserialize(node, cstruct, fuel) ==
    LET st == node.st
        fs == Types[st.typ].fields
        attr(w) == MapGet(st.deserialize_overrides, w, w)
        \* self.typ(**kwargs): unexpected or missing keyword arguments
        construct(r) ==
            LET kwargs == {attr(w) : w \in DOMAIN Payload(r.v)}
                wire(a) == CHOOSE w \in DOMAIN Payload(r.v) : attr(w) = a
            IN IF r.s # "ok" THEN r
               ELSE IF \/ \E a \in kwargs : \A i \in 1..Len(fs) : fs[i].name # a
                       \/ \E i \in 1..Len(fs) :
                              ~fs[i].hasdef /\ fs[i].name \notin kwargs
                    THEN RaiseExc("TypeError")
               ELSE Ret(VRec(st.typ,
                        [a \in {fs[i].name : i \in 1..Len(fs)} |->
                            IF a \in kwargs THEN Payload(r.v)[wire(a)]
                            ELSE fs[CHOOSE i \in 1..Len(fs) : fs[i].name = a].def]))
    IN IF cstruct.t # "dict"
       THEN RaiseInv(Invalid(node.name, "is not a mapping type", <<>>))
       ELSE construct(Mapping_impl(node, Payload(cstruct), unknown[st.typ],
                                   "deserialize", fuel))

Structure_serialize(node, appstruct, fuel) ==
    LET st == node.st
        dov == st.deserialize_overrides
        serialize_overrides(a) ==
            IF \E w \in DOMAIN dov : dov[w] = a
            THEN CHOOSE w \in DOMAIN dov : dov[w] = a ELSE a
        attrs == st.attrs
        \* getattr(appstruct, attr_name) of every attribute
        hasattrs == /\ appstruct.t \in {"rec", "var"}
                    /\ \A i \in 1..Len(attrs) : attrs[i] \in DOMAIN Payload(appstruct)
        d == [w \in {serialize_overrides(attrs[i]) : i \in 1..Len(attrs)} |->
                 Payload(appstruct)[attrs[SeqMax({i \in 1..Len(attrs) :
                                 serialize_overrides(attrs[i]) = w})]]]
    IN IF ~IsNull(appstruct) /\ ~hasattrs THEN RaiseExc("AttributeError")
       ELSE Mapping_impl(node, IF IsNull(appstruct) THEN EmptyMap ELSE d,
                         unknown[st.typ], "serialize", fuel)

\* colander.Sequence: one child, applied to every item
Sequence_impl(node, value, mode, fuel) ==
    LET it == PyIter(value)
        finish(rs) == Collect(node, rs, VList([i \in 1..Len(rs) |-> rs[i].v]))
    IN IF IsNull(value) THEN Ret(Null)
       ELSE IF it[1] = "TypeError" THEN RaiseExc("TypeError")
       ELSE IF it[1] = "no" \/ value.t \in {"str", "dict"}
            THEN RaiseInv(Invalid(node.name, "is not iterable", <<>>))
       ELSE finish([i \in 1..Len(it[2]) |->
                       Callback(mode, node.children[1], it[2][i], fuel)])

\* colander.Tuple: as many items as children
Tuple_impl(node, value, mode, fuel) ==
    LET it == PyIter(value)
        ch == node.children
        finish(rs) == Collect(node, rs, VTuple([i \in 1..Len(rs) |-> rs[i].v]))
    IN IF IsNull(value) THEN Ret(Null)
       ELSE IF it[1] = "TypeError" THEN RaiseExc("TypeError")
       ELSE IF it[1] = "no"
            THEN RaiseInv(Invalid(node.name, "is not iterable", <<>>))
       ELSE IF Len(it[2]) # Len(ch)
            THEN RaiseInv(Invalid(node.name, "has an incorrect number of elements", <<>>))
       ELSE finish([i \in 1..Len(ch) |-> Callback(mode, ch[i], it[2][i], fuel)])

\* self.primitive_types.get(type(value)): <<found, schema type>>
PrimitiveTypeOf(nonstrict, value) ==
    IF value.t \in {"bytes", "str", "int", "float", "bool"}
    THEN <<TRUE, PRIMITIVES_REGISTRY(nonstrict, value.t)>>
    ELSE <<FALSE, [k |-> ""]>>

\* the last outcome, in order, that is not a raised Invalid
LastNotInvalid(rs) == rs[CHOOSE i \in 1..Len(rs) :
                            /\ rs[i].s # "invalid"
                            /\ \A j \in (i + 1)..Len(rs) : rs[j].s = "invalid"]

\* the first outcome, in order, that is not a raised Invalid
FirstNotInvalid(rs) == rs[CHOOSE i \in 1..Len(rs) :
                             /\ rs[i].s # "invalid"
                             /\ \A j \in 1..(i - 1) : rs[j].s = "invalid"]

\* prim_schema_type in self.variant_schema_types
HasExactVariant(st, prim) ==
    /\ prim[1]
    /\ \E i \in 1..Len(st.variants) : IsSchemaType(st.variants[i].node.st, prim[2])

\* the variants x with x.typ is not prim_schema_type
RemainingVariants(st, prim) ==
    SelectSeq(st.variants, LAMBDA x : ~(prim[1] /\ IsSchemaType(x.node.st, prim[2])))

\* step 1 of Union.deserialize: the variant of the exact primitive type
ExactFirst(node, prim, cstruct) ==
    IF HasExactVariant(node.st, prim)
    THEN Primitive_deserialize(node, prim[2], cstruct)
    ELSE RaiseInv(NoErr)

Union_deserialize(node, cstruct, fuel) ==
    LET st == node.st
        prim == PrimitiveTypeOf(st.nonstrict, cstruct)
        remaining_variants == RemainingVariants(st, prim)
        collected_errors(first, rs) ==
            (IF HasExactVariant(st, prim)
             THEN <<[pos |-> -1, s |-> first.s, e |-> first.e]>> ELSE <<>>)
            \o SubErrors(rs)
        rest(first, rs) ==
            IF \E i \in 1..Len(rs) : rs[i].s # "invalid" THEN FirstNotInvalid(rs)
            ELSE RaiseInv(Invalid(node.name, "No suitable variant among tried",
                                  collected_errors(first, rs)))
        finish(first) ==
            IF first.s = "ok" THEN first
            ELSE rest(first, [i \in 1..Len(remaining_variants) |->
                         SchemaNode_deserialize(remaining_variants[i].node,
                                                cstruct, fuel)])
    IN IF IsNullOrNone(cstruct) THEN Ret(cstruct)
       ELSE finish(ExactFirst(node, prim, cstruct))

\* the test Union.serialize makes before it tries a plain SchemaNode variant
MatchesVariantType(appstruct, var_type) ==
    LET kind == Types[var_type].kind IN
    CASE kind = "fref"   -> TRUE
      [] kind = "prim"   -> \/ appstruct.t = var_type
                            \/ appstruct.t = "bool" /\ var_type = "int"
      [] kind = "record" -> appstruct.t = "rec" /\ appstruct.c = var_type
      [] kind = "sum"    -> /\ appstruct.t = "var"
                            /\ \E i \in 1..Len(Types[var_type].fields) :
                                   Types[var_type].fields[i].type = appstruct.c
      [] OTHER -> FALSE

Union_serialize(node, appstruct, fuel) ==
    LET st == node.st
        prim == PrimitiveTypeOf(st.nonstrict, appstruct)
        tried(x) ==
            CASE x.node.cls = "SequenceSchema" -> appstruct.t = "list"
              [] x.node.cls = "TupleSchema"    -> appstruct.t \in {"tuple", "rec"}
              [] OTHER -> MatchesVariantType(appstruct, x.typ)
        candidates == SelectSeq(RemainingVariants(st, prim), tried)
        rest(rs) ==
            IF \E i \in 1..Len(rs) : rs[i].s # "invalid" THEN FirstNotInvalid(rs)
            ELSE RaiseInv(Invalid(node.name, "None of the expected variants matches",
                                  <<>>))
        finish(first) ==
            IF first.s = "ok" THEN first
            ELSE rest([i \in 1..Len(candidates) |->
                          SchemaNode_serialize(candidates[i].node, appstruct, fuel)])
    IN IF IsNullOrNone(appstruct) THEN Ret(None)
       ELSE finish(IF HasExactVariant(st, prim)
                   THEN Primitive_serialize(node, prim[2], appstruct)
                   ELSE RaiseInv(NoErr))

\* tag, payload = cstruct
Unpack2(cstruct) ==
    LET it == PyIter(cstruct) IN
    IF it[1] # "ok" THEN "TypeError"
    ELSE IF Len(it[2]) # 2 THEN "ValueError" ELSE "ok"

Sum_deserialize(node, cstruct, fuel) ==
    LET st == node.st
        key == st.as_dict_key
        tag == IF key # "" THEN Payload(cstruct)[key] ELSE PyIter(cstruct)[2][1]
        payload ==
            IF key # ""
            THEN VDict([w \in (DOMAIN Payload(cstruct)) \ {key} |-> Payload(cstruct)[w]])
            ELSE PyIter(cstruct)[2][2]
        matched == {i \in 1..Len(st.variants) : IsStr(tag, st.variants[i].value)}
        var == st.variants[CHOOSE i \in matched : \A j \in matched : i <= j]
        finish(variant_struct) ==
            IF variant_struct.s = "invalid"
            THEN RaiseInv(Invalid(node.name, "Incorrect payload format", <<>>))
            ELSE IF variant_struct.s = "raise" THEN variant_struct
            \* var_type(**variant_struct._asdict())
            ELSE IF variant_struct.v.t # "rec" THEN RaiseExc("AttributeError")
            ELSE Ret(VVar(var.typ, Payload(variant_struct.v)))
    IN IF IsNullOrNone(cstruct) THEN Ret(cstruct)
       \* cstruct[self.as_dict_key]: only KeyError and ValueError are caught
       ELSE IF key # "" /\ cstruct.t # "dict" THEN RaiseExc("TypeError")
       ELSE IF key # "" /\ key \notin DOMAIN Payload(cstruct)
            THEN RaiseInv(Invalid(node.name, "tag is not present as key", <<>>))
       \* tag, payload = cstruct: only ValueError is caught
       ELSE IF key = "" /\ Unpack2(cstruct) = "TypeError" THEN RaiseExc("TypeError")
       ELSE IF key = "" /\ Unpack2(cstruct) = "ValueError"
            THEN RaiseInv(Invalid(node.name, "Incorrect data layout for this type.", <<>>))
       ELSE IF matched = {}
            THEN RaiseInv(Invalid(node.name,
                     "None of the expected variants matches provided data", <<>>))
       ELSE finish(SchemaNode_deserialize(var.node, payload, fuel))

Sum_serialize(node, appstruct, fuel) ==
    LET st == node.st
        key == st.as_dict_key
        matched == {i \in 1..Len(st.variants) :
                       appstruct.t = "var" /\ appstruct.c = st.variants[i].typ}
        var == st.variants[CHOOSE i \in matched : \A j \in matched : i <= j]
        finish(rv) ==
            IF rv.s # "ok" THEN rv
            ELSE IF key = "" THEN Ret(VTuple(<<VStr(var.value), rv.v>>))
            \* rv[self.as_dict_key] = value
            ELSE IF rv.v.t # "dict" THEN RaiseExc("TypeError")
            ELSE Ret(VDict(MapSet(Payload(rv.v), key, VStr(var.value))))
    IN IF IsNullOrNone(appstruct) THEN Ret(None)
       ELSE IF matched = {}
            THEN RaiseInv(Invalid(node.name,
                     "None of the expected variants matches provided structure", <<>>))
       ELSE finish(SchemaNode_serialize(var.node, appstruct, fuel))

\* self.ref_registry[self.ref]: the node bound in the table of the build
\* call that created this placeholder, None while it is unbound
ForwardReferenceType_target(st) ==
    LET reg == regs[st.reg] IN
    IF RegHas(reg, st.ref) /\ reg[RegIdx(reg, st.ref)].bound
    THEN <<TRUE, reg[RegIdx(reg, st.ref)].node>>
    ELSE <<FALSE, NoNode>>

ForwardReferenceType_deserialize(node, cstruct, fuel) ==
    LET target == ForwardReferenceType_target(node.st) IN
    IF ~target[1] THEN RaiseExc("AttributeError")
    ELSE SchemaNode_deserialize(target[2], cstruct, fuel)

ForwardReferenceType_serialize(node, appstruct, fuel) ==
    LET target == ForwardReferenceType_target(node.st) IN
    IF ~target[1] THEN RaiseExc("AttributeError")
    ELSE SchemaNode_serialize(target[2], appstruct, fuel)

\* node.typ.deserialize(node, cstruct)
Typ_deserialize(node, cstruct, fuel) ==
    CASE node.cls = "SequenceSchema" -> Sequence_impl(node, cstruct, "deserialize", fuel)
      [] node.cls = "TupleSchema"    -> Tuple_impl(node, cstruct, "deserialize", fuel)
      [] OTHER ->
         CASE node.st.k = "Structure" -> Structure_deserialize(node, cstruct, fuel)
           [] node.st.k = "Union"     -> Union_deserialize(node, cstruct, fuel)
           [] node.st.k = "Sum"       -> Sum_deserialize(node, cstruct, fuel)
           [] node.st.k = "ForwardReferenceType" ->
                  ForwardReferenceType_deserialize(node, cstruct, fuel)
           [] OTHER -> Primitive_deserialize(node, node.st, cstruct)

Typ_serialize(node, appstruct, fuel) ==
    CASE node.cls = "SequenceSchema" -> Sequence_impl(node, appstruct, "serialize", fuel)
      [] node.cls = "TupleSchema"    -> Tuple_impl(node, appstruct, "serialize", fuel)
      [] OTHER ->
         CASE node.st.k = "Structure" -> Structure_serialize(node, appstruct, fuel)
           [] node.st.k = "Union"     -> Union_serialize(node, appstruct, fuel)
           [] node.st.k = "Sum"       -> Sum_serialize(node, appstruct, fuel)
           [] node.st.k = "ForwardReferenceType" ->
                  ForwardReferenceType_serialize(node, appstruct, fuel)
           [] OTHER -> Primitive_serialize(node, node.st, appstruct)

\* colander.SchemaNode.deserialize: null, and a null result, give node.missing
SchemaNode_deserialize(node, cstruct, fuel) ==
    LET missing == IF node.missing.t = "required"
                   THEN RaiseInv(Invalid(node.name, "Required", <<>>))
                   ELSE Ret(node.missing)
        finish(appstruct) ==
            IF appstruct.s = "ok" /\ IsNull(appstruct.v) THEN missing
            ELSE appstruct
    IN IF fuel = 0 THEN RaiseExc("RecursionError")
       ELSE IF IsNull(cstruct) THEN missing
       ELSE finish(Typ_deserialize(node, cstruct, fuel - 1))

\* colander.SchemaNode.serialize: null stands for node.default, which is null
SchemaNode_serialize(node, appstruct, fuel) ==
    IF fuel = 0 THEN RaiseExc("RecursionError")
    ELSE Typ_serialize(node, appstruct, fuel - 1)

\* errors_aware_constructor: Invalid becomes Error(validation_error, data)
Error(e, data) == [s |-> "Error", v |-> Null, e |-> e, x |-> "", sample_data |-> data]
errors_aware_constructor(r, data) ==
    IF r.s = "invalid" THEN Error(r.e, data) ELSE r

-----------------------------------------------------------------------------
(* The builder: _TypeConstructor.                                          *)

\* override items a caller composes with &
FlagItem(flag)          == [kind |-> "flag", key |-> flag, value |-> "", map |-> EmptyMap]
ModifiedFlag(flag, val) == [kind |-> "modflag", key |-> flag, value |-> val, map |-> EmptyMap]
TypeExtension(t, sch)   == [kind |-> "ext", key |-> ExtKey(t), value |-> sch, map |-> EmptyMap]
FieldMapping(m)         == [kind |-> "fields", key |-> "", value |-> "", map |-> m]
OtherItem               == [kind |-> "other", key |-> "", value |-> "", map |-> EmptyMap]

\* one pass of the loop of __and__ over combined.combined
RECURSIVE AndLoop(_, _, _)
AndLoop(selfov, combined, acc) ==
    IF combined = <<>> THEN acc
    ELSE LET override == Head(combined)
             upd == CASE override.kind = "flag" ->
                            MapSet(selfov, override.key, DefaultSetting(override.key))
                      [] override.kind = "modflag" ->
                            MapSet(selfov, override.key, override.value)
                      [] override.kind = "ext" ->
                            MapSet(selfov, override.key, override.value)
                      [] override.kind = "fields" ->
                            MapUpdate(selfov, override.map)
                      [] OTHER -> EmptyMap
         IN IF override.kind = "other" THEN AndLoop(selfov, Tail(combined), acc)
            ELSE AndLoop(selfov, Tail(combined), MapUpdate(acc, upd))

\* the override set of the builder that self & combined returns
TypeConstructor_and(selfov, combined) == AndLoop(selfov, combined, EmptyMap)

\* type_constructor = _TypeConstructor() & JsonStringSchema[JsonString]
InitialOverrides ==
    TypeConstructor_and(NO_OVERRIDES,
                        <<TypeExtension("JsonString", "JsonStringSchema")>>)

NoSess == [typ |-> "", form |-> "", ov |-> EmptyMap, memo |-> EmptyMap,
           root |-> NoNode]
NoCall == [op |-> "", arg |-> Null, res |-> Ret(Null), back |-> FALSE,
           orig |-> Null]

\* the threads that call the returned pair, none of them in a call
MaxThreads == 2
Threads == 1..MaxThreads
NoThread == [st |-> "idle", op |-> "", arg |-> Null, res |-> Ret(Null)]
NoThreads == [t \in Threads |-> NoThread]

Init ==
    /\ steps = 0
    /\ overrides = InitialOverrides
    /\ memo = EmptyMap
    /\ unknown = EmptyMap
    /\ regs = <<>>
    /\ pc = "idle"
    /\ sess = NoSess
    /\ call = NoCall
    /\ threads = NoThreads

\* the item lists the model composes onto a builder
OverrideItems ==
    << <<FlagItem(NonStrictPrimitives)>>,
       <<FlagItem(SumTypeDict)>>,
       <<ModifiedFlag(GlobalNameOverride, "prefix")>>,
       <<FieldMapping(Map1(FieldKey("X", "x"), "my-x"))>>,
       <<FieldMapping(Map1(FieldKey("D", "b"), "bee"))>>,
       <<TypeExtension("Tup_var", "AcceptEverything")>>,
       <<OtherItem>>,
       <<OtherItem, FlagItem(NonStrictPrimitives)>>,
       <<ModifiedFlag(GlobalNameOverride, "prefix"),
         FieldMapping(Map1(FieldKey("X", "x"), "x"))>>,
       <<ModifiedFlag(GlobalNameOverride, "prefix"),
         FieldMapping(Map1(FieldKey("X", "x"), "my-x"))>> >>

\* builder & items: a new builder, with its own empty memo
Override(i) ==
    /\ pc # "fixup"
    /\ steps < MaxOverrideSteps
    /\ steps' = steps + 1
    /\ overrides' = TypeConstructor_and(overrides, OverrideItems[i])
    /\ memo' = EmptyMap
    /\ unknown' = EmptyMap
    /\ regs' = <<>>
    /\ pc' = "idle"
    /\ sess' = NoSess
    /\ call' = NoCall
    /\ UNCHANGED threads

\* the types build calls are made for; Either_Left is the class a variant of
\* Either is declared over (variant_meta.constructor), built on its own too
BuildTypes == <<"int", "str", "bytes", "U_sif", "U_fis", "X", "D", "Tree", "Q",
                "V", "W", "Tup_var", "Either", "J", "Either_Left", "EV">>

\* __call__(typ, ov) up to the end of the first resolve pass
FirstPassDone(typ, form, ov, r) ==
    /\ regs' = Append(regs, r.st.frefs)
    /\ unknown' = r.st.unk
    /\ pc' = IF r.ok THEN "fixup" ELSE "failed"
    /\ sess' = [typ |-> typ, form |-> form, ov |-> ov,
                memo |-> IF r.ok THEN r.st.memo ELSE memo,
                root |-> r.node]
    /\ call' = NoCall
    /\ UNCHANGED <<steps, overrides, memo, threads>>

FirstPass(typ, form, ov) ==
    /\ pc # "fixup"
    /\ Len(regs) < MaxBuilds
    /\ \E r \in {decide_node_type(typ, ov,
                      [memo |-> memo, frefs |-> <<>>, unk |-> unknown,
                       reg |-> Len(regs) + 1])} :
          FirstPassDone(typ, form, ov, r)

\* builder(typ): the overrides argument defaults to NO_OVERRIDES
TypeConstructor_call(typ) == FirstPass(typ, "call", NO_OVERRIDES)

\* builder ^ typ: __call__(typ, self.overrides)
TypeConstructor_xor(typ) == FirstPass(typ, "xor", overrides)

\* a loop that binds every unresolved placeholder to the root node
RECURSIVE FixupRefs_root(_, _, _, _)
FixupRefs_root(unresolved, ov, main_type_node, st) ==
    IF unresolved = <<>> THEN [ok |-> TRUE, st |-> st]
    ELSE FixupRefs_root(Tail(unresolved), ov, main_type_node,
            [st EXCEPT !.frefs = RegPut(@, Head(unresolved), TRUE, main_type_node)])

\* the for loop over the unresolved placeholders of one iteration
RECURSIVE FixupRefs(_, _, _, _)
FixupRefs(unresolved, ov, main_type_node, st) ==
    LET ref == Head(unresolved)
        bind(r) ==
            IF ~r.ok THEN [ok |-> FALSE, st |-> r.st]
            ELSE FixupRefs(Tail(unresolved), ov, main_type_node,
                    [r.st EXCEPT !.frefs = RegPut(@, ref, TRUE, r.node)])
    IN IF unresolved = <<>> THEN [ok |-> TRUE, st |-> st]
       ELSE Once({bind(r) : r \in
                {IF Types[ref].target = "" THEN ROk(main_type_node, st)
                 ELSE decide_node_type(Types[ref].target, ov, st)}})

\* a loop test that sees no unresolved placeholder
Unresolved_none(reg) == <<>>

Unresolved(reg) ==
    LET u == SelectSeq(reg, LAMBDA e : ~e.bound) IN [i \in 1..Len(u) |-> u[i].ref]

FixupDone(n, f) ==
    /\ regs' = [regs EXCEPT ![n] = f.st.frefs]
    /\ unknown' = f.st.unk
    /\ pc' = IF f.ok THEN "fixup" ELSE "failed"
    /\ sess' = IF f.ok THEN [sess EXCEPT !.memo = f.st.memo] ELSE sess
    /\ UNCHANGED memo

\* one iteration of the while loop of __call__; on exit self.memo = memo
FixupIter ==
    LET n == Len(regs)
        unresolved == Unresolved(regs[n])
    IN /\ pc = "fixup"
       /\ IF unresolved = <<>>
          THEN /\ memo' = sess.memo
               /\ pc' = "ready"
               /\ UNCHANGED <<regs, unknown, sess>>
          ELSE \E f \in {FixupRefs(unresolved, sess.ov, sess.root,
                              [memo |-> sess.memo, frefs |-> regs[n],
                               unk |-> unknown, reg |-> n])} :
                  FixupDone(n, f)
       /\ UNCHANGED <<steps, overrides, call, threads>>

-----------------------------------------------------------------------------
(* The calls made on a returned pair.  The raw and typed values tried on   *)
(* the pair built for a type: every shape (null, scalar, sequence,         *)
(* mapping) and the values the type is meant for.                          *)

D1(k, v)           == VDict(Map1(k, v))
D2(k1, v1, k2, v2) == VDict(MapSet(Map1(k1, v1), k2, v2))
R1(cls, k, v)      == VRec(cls, Map1(k, v))

Shapes == <<None, VInt(5), VList(<<VInt(1)>>), D1("k", VInt(1))>>

LeafTree(v) == VDict(MapSet(MapSet(Map1("left", None), "right", None), "value", v))
LeafTreeV(v) == VRec("Tree", MapSet(MapSet(Map1("left", None), "right", None), "value", v))

RawSamples(typ) ==
    Shapes \o
    CASE typ \in {"str", "bytes"} ->
            <<VInt(1), VStr("1"), VFloat(1), VBool(TRUE), VStr("None"), VBytes("a"),
              VStr("")>>
      [] typ \in {"int", "U_sif", "U_fis"} ->
            <<VInt(1), VStr("1"), VFloat(1), VBool(TRUE), VStr("None")>>
      [] typ = "X" ->
            <<D1("x", VInt(1)), D1("my-x", VInt(1)), D1("p-x", VInt(1)),
              D1("x", VStr("1")), D2("x", VInt(1), "extra", VInt(2))>>
      [] typ = "D" ->
            <<D1("a", VInt(1)), D2("a", VInt(1), "b", VInt(2)),
              D2("a", VInt(1), "bee", VInt(2)), D2("a", VInt(1), "c", VInt(2)),
              D1("b", VInt(2))>>
      [] typ = "Tree" ->
            <<LeafTree(VInt(1)),
              VDict(MapSet(MapSet(Map1("left", LeafTree(VInt(2))), "right", None),
                           "value", VStr("a"))),
              D1("value", VInt(1)),
              VDict(MapSet(MapSet(Map1("left", VInt(5)), "right", None),
                           "value", VInt(1)))>>
      [] typ = "Q" ->
            <<D2("v", VInt(1), "p", None), D1("v", VInt(1)),
              D2("v", VInt(1), "p", D1("q", D2("v", VInt(2), "p", None))),
              D2("v", VInt(1), "p", D1("q", VInt(5)))>>
      [] typ = "Either" ->
            <<VList(<<VStr("left"), D1("err", VStr("Error"))>>),
              VList(<<VStr("right"), D1("n", VInt(1))>>),
              VTuple(<<VStr("left"), D1("err", VStr("Error"))>>),
              VList(<<VStr("left"), D1("err", VStr("None"))>>),
              VList(<<VStr("none"), D1("n", VInt(1))>>),
              VList(<<VStr("Left"), D1("err", VStr("Error"))>>),
              VList(<<VStr("left"), D1("n", VInt(1))>>),
              VList(<<VStr("left"), D2("err", VStr("Error"), "extra", VInt(1))>>),
              D2("type", VStr("left"), "err", VStr("Error")),
              D2("type", VStr("none"), "err", VStr("Error")),
              VStr("ab")>>
      [] typ = "Either_Left" ->
            <<D1("err", VStr("Error")), D2("err", VStr("Error"), "extra", VInt(1))>>
      [] typ = "J" ->
            <<VInt(1), VList(<<VInt(1), VList(<<VInt(2)>>)>>), VList(<<VStr("a")>>)>>
      [] typ = "Tup_si" ->
            <<VList(<<VStr("a"), VInt(1)>>), VList(<<VStr("a"), VStr("b")>>),
              VList(<<VInt(1), VInt(2)>>), D2("a", VInt(1), "b", VInt(2))>>
      [] typ = "Seq_X" ->
            <<VList(<<D1("x", VInt(1)), D1("x", VInt(2))>>),
              VList(<<D1("x", VInt(1)), D1("x", VStr("1"))>>),
              VList(<<D1("x", VStr("1"))>>),
              VList(<<D1("x", VInt(1)), D1("y", VInt(1))>>),
              VList(<<D1("x", VInt(1)), VInt(5)>>)>>
      [] OTHER -> <<>>

TypedSamples(typ) ==
    <<None, VInt(5), VList(<<VInt(1)>>), R1("N", "s", VStr("a"))>> \o
    CASE typ \in {"str", "bytes"} ->
            <<VInt(1), VStr("1"), VFloat(1), VBool(TRUE), VStr("None"), VBytes("a"),
              VStr("a")>>
      [] typ \in {"int", "U_sif", "U_fis"} ->
            <<VInt(1), VStr("1"), VFloat(1), VBool(TRUE), VStr("None")>>
      [] typ = "X" ->
            <<R1("X", "x", VInt(1)), R1("X", "x", VStr("1")), R1("X", "x", None)>>
      [] typ = "D" ->
            <<VRec("D", MapSet(MapSet(Map1("a", VInt(1)), "b", None), "c", VInt(0))),
              VRec("D", MapSet(MapSet(Map1("a", VInt(1)), "b", VInt(2)), "c", VInt(5)))>>
      [] typ = "Tree" ->
            <<LeafTreeV(VInt(1)),
              VRec("Tree", MapSet(MapSet(Map1("left", LeafTreeV(VInt(2))), "right", None),
                                  "value", VStr("a")))>>
      [] typ = "Q" ->
            <<VRec("Q", MapSet(Map1("v", VInt(1)), "p", None)),
              VRec("Q", MapSet(Map1("v", VInt(1)), "p",
                   R1("P", "q", VRec("Q", MapSet(Map1("v", VInt(2)), "p", None))))),
              \* p holds a value of a class M that is not P and has P's attribute
              VRec("Q", MapSet(Map1("v", VInt(1)), "p",
                   R1("M", "q", VRec("Q", MapSet(Map1("v", VInt(2)), "p", None)))))>>
      [] typ = "Either" ->
            <<VVar("Either_Left", Map1("err", VStr("Error"))),
              VVar("Either_Right", Map1("n", VInt(1))),
              VVar("Either_Left", Map1("err", VStr("None"))),
              VVar("Either_Right", Map1("n", VStr("1")))>>
      [] typ = "Either_Left" ->
            <<R1("Either_Left", "err", VStr("Error"))>>
      [] typ = "J" ->
            <<VInt(1), VList(<<VInt(1), VList(<<VInt(2)>>)>>)>>
      [] typ = "Tup_si" ->
            <<VTuple(<<VStr("a"), VInt(1)>>), VTuple(<<VStr("a"), VStr("b")>>)>>
      [] typ = "Seq_X" ->
            <<VList(<<R1("X", "x", VInt(1)), R1("X", "x", VStr("1"))>>),
              VList(<<R1("X", "x", VInt(1)), R1("N", "s", VStr("a"))>>)>>
      [] OTHER -> <<>>

\* decode(raw): errors_aware_constructor(main_type_node.deserialize, raw)
decode(raw) ==
    errors_aware_constructor(SchemaNode_deserialize(sess.root, raw, MaxDepth), raw)

\* encode(value): errors_aware_constructor(main_type_node.serialize, value)
encode(value) ==
    errors_aware_constructor(SchemaNode_serialize(sess.root, value, MaxDepth), value)

\* a decode call on the returned pair; the calls change nothing but their
\* own result, so one call, and its round trip, is followed per pair
Decode(i) ==
    LET raw == RawSamples(sess.typ)[i] IN
    /\ pc = "ready"
    /\ call.op = ""
    /\ call' = [op |-> "decode", arg |-> raw, res |-> decode(raw),
                back |-> FALSE, orig |-> Null]
    /\ UNCHANGED <<steps, overrides, memo, unknown, regs, pc, sess, threads>>

\* an encode call on the returned pair
Encode(i) ==
    LET value == TypedSamples(sess.typ)[i] IN
    /\ pc = "ready"
    /\ call.op = ""
    /\ call' = [op |-> "encode", arg |-> value, res |-> encode(value),
                back |-> FALSE, orig |-> Null]
    /\ UNCHANGED <<steps, overrides, memo, unknown, regs, pc, sess, threads>>

\* encode(decode(r)): the value a decode call returned is encoded
EncodeBack ==
    /\ pc = "ready"
    /\ call.op = "decode" /\ ~call.back /\ call.res.s = "ok"
    /\ call' = [op |-> "encode", arg |-> call.res.v, res |-> encode(call.res.v),
                back |-> TRUE, orig |-> call.arg]
    /\ UNCHANGED <<steps, overrides, memo, unknown, regs, pc, sess, threads>>

\* decode(encode(v)): the raw value an encode call returned is decoded
DecodeBack ==
    /\ pc = "ready"
    /\ call.op = "encode" /\ ~call.back /\ call.res.s = "ok"
    /\ call' = [op |-> "decode", arg |-> call.res.v, res |-> decode(call.res.v),
                back |-> TRUE, orig |-> call.arg]
    /\ UNCHANGED <<steps, overrides, memo, unknown, regs, pc, sess, threads>>

Next ==
    \/ \E i \in 1..Len(OverrideItems) : Override(i)
    \/ \E i \in 1..Len(BuildTypes) : TypeConstructor_call(BuildTypes[i])
    \/ \E i \in 1..Len(BuildTypes) : TypeConstructor_xor(BuildTypes[i])
    \/ FixupIter
    \/ \E i \in 1..Len(RawSamples(sess.typ)) : Decode(i)
    \/ \E i \in 1..Len(TypedSamples(sess.typ)) : Encode(i)
    \/ EncodeBack
    \/ DecodeBack

Spec == Init /\ [][Next]_vars

\* a running build call is not suspended: __call__ runs its while loop to
\* the end without yielding
SpecLive == Spec /\ WF_vars(FixupIter)

-----------------------------------------------------------------------------
(* Properties.                                                             *)

\* a == b on raw and typed values: same runtime type and same content; a
\* list and a tuple with the same items are the same raw sequence
RECURSIVE ValEq(_, _)
ValEq(a, b) ==
    LET kind(x) == IF x.t = "tuple" THEN "list" ELSE x.t IN
    /\ kind(a) = kind(b)
    /\ a.c = b.c
    /\ CASE kind(a) = "list" ->
               /\ Len(Payload(a)) = Len(Payload(b))
               /\ \A i \in 1..Len(Payload(a)) : ValEq(Payload(a)[i], Payload(b)[i])
         [] kind(a) \in {"dict", "rec", "var"} ->
               /\ DOMAIN Payload(a) = DOMAIN Payload(b)
               /\ \A k \in DOMAIN Payload(a) : ValEq(Payload(a)[k], Payload(b)[k])
         [] kind(a) \in {"null", "none", "required"} -> TRUE
         [] OTHER -> Payload(a) = Payload(b)

\* a first call on the returned pair / the second call of a round trip
FirstCall(o) == pc = "ready" /\ call.op = o /\ ~call.back
BackCall(o)  == pc = "ready" /\ call.op = o /\ call.back

\* C1: for every raw value r that decode accepts, encode(decode(r)) succeeds
\* and equals r.
C1_EncodeDecodeRoundTrip ==
    BackCall("encode") => (call.res.s = "ok" /\ ValEq(call.res.v, call.orig))

\* C2: for every typed value v, None aside, that encode accepts,
\* decode(encode(v)) succeeds and equals v.
C2_DecodeEncodeRoundTrip ==
    (BackCall("decode") /\ call.orig.t # "none") => (call.res.s = "ok" /\ ValEq(call.res.v, call.orig))

\* C3: a pair built for a primitive type without the non-strict flag fails,
\* in decode and in encode, on every value that is neither null nor None and
\* whose exact runtime type is not the declared type; a pair built for int
\* by ^ on a builder that carries the non-strict flag decodes "1" to 1.
C3_StrictPrimitives ==
    /\ ( /\ pc = "ready"
         /\ sess.typ \in {"int", "str", "bytes"}
         /\ NonStrictPrimitives \notin DOMAIN sess.ov
         /\ call.op # "" /\ ~call.back
         /\ call.arg.t \notin {"null", "none", sess.typ} )
       => call.res.s = "Error"
    /\ ( /\ FirstCall("decode")
         /\ sess.typ = "int"
         /\ NonStrictPrimitives \in DOMAIN sess.ov
         /\ IsStr(call.arg, "1") )
       => (call.res.s = "ok" /\ call.res.v.t = "int" /\ Payload(call.res.v) = 1)

\* C4: a pair built for Union[str, int, float], in either declared order,
\* decodes a raw str, int or float to a value of that same exact type.
C4_UnionExactTypeFirst ==
    ( /\ FirstCall("decode")
      /\ sess.typ \in {"U_sif", "U_fis"}
      /\ call.arg.t \in {"str", "int", "float"} )
    => (call.res.s = "ok" /\ call.res.v.t = call.arg.t)

\* C5: a build call that entered the fix-up loop leaves it, by returning the
\* pair or by raising, and whenever a pair has been returned every
\* placeholder of the call's forward-reference table is bound.
C5_BuildTerminates ==
    /\ [](pc = "ready" =>
             \A i \in 1..Len(regs[Len(regs)]) : regs[Len(regs)][i].bound)
    /\ (pc = "fixup") ~> (pc \in {"ready", "failed"})

\* a pair was returned for the mutually recursive records Q and P, whose
\* two placeholders were bound by the fix-up loop
C5_Witness ==
    /\ pc = "ready"
    /\ sess.typ = "Q"
    /\ Len(regs[Len(regs)]) = 2
    /\ \A i \in 1..2 : regs[Len(regs)][i].bound

\* the root node of the returned pair is a tagged union in the two-element
\* sequence encoding
TwoElementSum ==
    /\ pc = "ready"
    /\ sess.typ = "Either"
    /\ sess.root.st.k = "Sum"
    /\ sess.root.st.as_dict_key = ""
IsPair(x) == x.t \in {"list", "tuple"} /\ Len(Payload(x)) = 2 /\ Payload(x)[1].t = "str"

\* C6: in the two-element encoding, decode of [tag, payload] fails when tag
\* is no variant's tag value, returns on success a value of the variant with
\* that tag value, and encoding that value gives back the pair (tag, payload).
C6_SumPairRoundTrip ==
    /\ (TwoElementSum /\ FirstCall("decode") /\ IsPair(call.arg))
       => IF Payload(Payload(call.arg)[1]) \in {"left", "right"}
          THEN call.res.s = "ok" =>
                  /\ call.res.v.t = "var"
                  /\ call.res.v.c = (IF Payload(Payload(call.arg)[1]) = "left"
                                     THEN "Either_Left" ELSE "Either_Right")
          ELSE call.res.s = "Error"
    /\ (TwoElementSum /\ BackCall("encode") /\ IsPair(call.orig))
       => (call.res.s = "ok" /\ ValEq(call.res.v, call.orig))

\* the fields of the record the pair was built for that have a per-field
\* override in the build call's override set
Overridden ==
    {i \in 1..Len(Types[sess.typ].fields) :
        FieldKey(sess.typ, Types[sess.typ].fields[i].name) \in DOMAIN sess.ov}
OverrideOf(i) == sess.ov[FieldKey(sess.typ, Types[sess.typ].fields[i].name)]

\* C7: for a required record field with a per-field override, decode fails
\* on a raw mapping that has the attribute name and not the wire name,
\* succeeds on the valid raw mapping keyed by the wire name, and encode emits
\* the wire name and not the attribute name.
C7_OverriddenFieldByWireName ==
    (pc = "ready" /\ sess.typ = "X") =>
    \A i \in Overridden :
        LET attr == Types[sess.typ].fields[i].name
            wire == OverrideOf(i)
        IN /\ ( /\ FirstCall("decode") /\ call.arg.t = "dict"
                /\ attr \in DOMAIN Payload(call.arg) /\ wire \notin DOMAIN Payload(call.arg) )
              => call.res.s = "Error"
           /\ (FirstCall("decode") /\ ValEq(call.arg, D1(wire, VInt(1))))
              => call.res.s = "ok"
           /\ (FirstCall("encode") /\ call.res.s = "ok")
              => /\ call.res.v.t = "dict"
                 /\ wire \in DOMAIN Payload(call.res.v)
                 /\ attr # wire => attr \notin DOMAIN Payload(call.res.v)

\* C8: in a record built under a global name transform, the child node of a
\* field is named by the field's override when it has one, and by the
\* transform of the attribute name otherwise.
C8_OverrideWinsOverTransform ==
    ( /\ pc = "ready"
      /\ Types[sess.typ].kind = "record"
      /\ GlobalNameOverride \in DOMAIN sess.ov )
    => \A i \in 1..Len(Types[sess.typ].fields) :
          sess.root.children[i].name =
              IF i \in Overridden THEN OverrideOf(i)
              ELSE Transform(sess.ov[GlobalNameOverride],
                             Types[sess.typ].fields[i].name)

\* the types of the model whose graph contains the variable-length tuple
HasVariadicTuple == {"Tup_var", "V", "W", "EV"}

C10_OnlyErrorEscapes ==
    call.op # "" =>
        \/ call.res.s = "ok"
        \/ call.res.s = "Error" /\ ValEq(call.res.sample_data, call.arg)

-----------------------------------------------------------------------------
(* Build calls on one builder.                                             *)

\* the types of the model whose graph has no forward reference
NoRefTypes == {"int", "str", "bytes", "U_sif", "U_fis", "X", "D", "Either"}

\* what a new builder's first build call computes for the type and the
\* override set of the last build call: self.memo is the empty pmap
FreshBuild ==
    decide_node_type(sess.typ, sess.ov,
        [memo |-> EmptyMap, frefs |-> <<>>, unk |-> EmptyMap, reg |-> Len(regs)])

\* C11: the pair a build call returns for a type under an override set is
\* bound to the same node tree, with the same settings of its record schema
\* types, as the pair a new builder returns for that type and override set.
C11_ReusedBuilderLikeFresh ==
    (pc = "ready" /\ sess.typ \in NoRefTypes) =>
        /\ sess.root = FreshBuild.node
        /\ \A t \in DOMAIN FreshBuild.st.unk : unknown[t] = FreshBuild.st.unk[t]

\* C12: once a build call has returned its pair the builder keeps no memo.
C12_MemoScopedToOneCall ==
    pc = "ready" => memo = EmptyMap

-----------------------------------------------------------------------------
(* Composition of overrides: builders derived from builders with &.        *)

\* builders derived one from another in a chain of & steps
MaxComposeSteps == 3

\* the item lists composed in a chain: those of OverrideItems, and groups
\* that set again a key the builder may already hold
ComposeItems ==
    OverrideItems \o
    << <<ModifiedFlag(SumTypeDict, "kind")>>,
       <<FlagItem(SumTypeDict), FlagItem(NonStrictPrimitives)>>,
       <<ModifiedFlag(GlobalNameOverride, "upper"),
         FieldMapping(Map1(FieldKey("D", "b"), "bee"))>> >>

\* builder & items, as Override, in a chain of up to MaxComposeSteps steps
Compose(i) ==
    /\ pc = "idle"
    /\ steps < MaxComposeSteps
    /\ steps' = steps + 1
    /\ overrides' = TypeConstructor_and(overrides, ComposeItems[i])
    /\ UNCHANGED <<memo, unknown, regs, pc, sess, call, threads>>

NextCompose == \E i \in 1..Len(ComposeItems) : Compose(i)

SpecCompose == Init /\ [][NextCompose]_vars

\* the right-biased union of an override set with one item, and with a
\* list of items taken in order
ItemMerged(ov, item) ==
    CASE item.kind = "flag"    -> MapSet(ov, item.key, DefaultSetting(item.key))
      [] item.kind = "modflag" -> MapSet(ov, item.key, item.value)
      [] item.kind = "ext"     -> MapSet(ov, item.key, item.value)
      [] item.kind = "fields"  -> MapUpdate(ov, item.map)
      [] OTHER -> ov
RECURSIVE ItemsMerged(_, _)
ItemsMerged(ov, items) ==
    IF items = <<>> THEN ov
    ELSE ItemsMerged(ItemMerged(ov, Head(items)), Tail(items))

\* C13: the override set of the builder that builder & items returns is the
\* right-biased union of the builder's override set with the items in
\* order: the last item that sets a key gives its value, every other key
\* keeps its earlier value.
C13_ComposeRightBiased ==
    [][\A i \in 1..Len(ComposeItems) :
          Compose(i) => overrides' = ItemsMerged(overrides, ComposeItems[i])]_vars

-----------------------------------------------------------------------------
(* Calls on a returned pair made from several threads.  A call reads the   *)
(* node tree, the forward-reference table and the settings of the schema  *)
(* types while it runs, so its result is computed when it returns, from    *)
(* what the shared state holds then; the calls of the other threads begin  *)
(* and return in between.                                                  *)

\* the first build call on the initial builder
FirstBuild(i) ==
    /\ regs = <<>>
    /\ \/ TypeConstructor_call(BuildTypes[i])
       \/ TypeConstructor_xor(BuildTypes[i])

\* thread t enters decode(raw) / encode(value) on the returned pair
BeginCall(t, o, arg) ==
    /\ pc = "ready"
    /\ threads[t].st = "idle"
    /\ threads' = [threads EXCEPT ![t] = [st |-> "running", op |-> o,
                                          arg |-> arg, res |-> Ret(Null)]]
    /\ UNCHANGED <<steps, overrides, memo, unknown, regs, pc, sess, call>>

BeginDecode(t, i) == BeginCall(t, "decode", RawSamples(sess.typ)[i])
BeginEncode(t, i) == BeginCall(t, "encode", TypedSamples(sess.typ)[i])

\* a call that changes the settings of the record schema types it visits
ReturnCall_writing(t) ==
    /\ pc = "ready"
    /\ threads[t].st = "running"
    /\ threads' = [threads EXCEPT ![t].st = "done",
                      ![t].res = IF threads[t].op = "decode"
                                 THEN decode(threads[t].arg)
                                 ELSE encode(threads[t].arg)]
    /\ unknown' = [x \in DOMAIN unknown |-> "raise"]
    /\ UNCHANGED <<steps, overrides, memo, regs, pc, sess, call>>

\* the call of thread t returns or raises: deserialize and serialize assign
\* to locals only
ReturnCall(t) ==
    /\ pc = "ready"
    /\ threads[t].st = "running"
    /\ threads' = [threads EXCEPT ![t].st = "done",
                      ![t].res = IF threads[t].op = "decode"
                                 THEN decode(threads[t].arg)
                                 ELSE encode(threads[t].arg)]
    /\ UNCHANGED <<steps, overrides, memo, unknown, regs, pc, sess, call>>

\* thread t goes on to its next call
NextCall(t) ==
    /\ pc = "ready"
    /\ threads[t].st = "done"
    /\ threads' = [threads EXCEPT ![t] = NoThread]
    /\ UNCHANGED <<steps, overrides, memo, unknown, regs, pc, sess, call>>

NextThreads ==
    \/ \E i \in 1..Len(BuildTypes) : FirstBuild(i)
    \/ FixupIter
    \/ \E t \in Threads : \E i \in 1..Len(RawSamples(sess.typ)) : BeginDecode(t, i)
    \/ \E t \in Threads : \E i \in 1..Len(TypedSamples(sess.typ)) : BeginEncode(t, i)
    \/ \E t \in Threads : ReturnCall(t)
    \/ \E t \in Threads : NextCall(t)

SpecThreads == Init /\ [][NextThreads]_vars

\* what the call of thread t returns when no other call runs
Alone(t) == IF threads[t].op = "decode" THEN decode(threads[t].arg)
            ELSE encode(threads[t].arg)

-----------------------------------------------------------------------------
(* Iterating an Error: Error.__iter__ is iter_invalid(validation_error,    *)
(* sample_data).  The wire names of the model hold no "." and are no       *)
(* attribute names of dict, list or str.                                   *)

\* Invalid._keyname of a sub-error: str(pos) under a Positional parent,
\* str(node.name) otherwise
KeyName(parent, sub) ==
    IF parent.positional THEN DigitStr(sub.pos) ELSE sub.e.name

RECURSIVE Flatten(_)
Flatten(ss) == IF ss = <<>> THEN <<>> ELSE Head(ss) \o Flatten(Tail(ss))

\* Invalid.paths with the key parts asdict keeps of every path: one path
\* per leaf of the error tree, the empty key names left out
RECURSIVE Paths(_, _)
Paths(e, keyname) ==
    LET here == IF keyname = "" THEN <<>> ELSE <<keyname>>
        prefixed(ps) == [j \in 1..Len(ps) |-> here \o ps[j]]
    IN IF e.subs = <<>> THEN <<here>>
       ELSE Flatten([i \in 1..Len(e.subs) |->
                prefixed(Paths(e.subs[i].e, KeyName(e, e.subs[i])))])

\* the keys of the dict asdict returns, in insertion order
RECURSIVE Dedupe(_)
Dedupe(ps) ==
    IF ps = <<>> THEN <<>>
    ELSE <<Head(ps)>> \o Dedupe(SelectSeq(Tail(ps), LAMBDA q : q # Head(ps)))
asdict(e) == Dedupe(Paths(e, e.name))

\* e_path.split('.') of '.'.join(keyparts): the empty path is ['']
SplitPath(keyparts) == IF keyparts = <<>> THEN <<"">> ELSE keyparts

\* x = int(x), or x itself when int raises ValueError
PathPart(x) ==
    IF x \in {"0", "1", "2", "5"}
    THEN [k |-> "idx", i |-> PyInt(VStr(x))[2], s |-> ""]
    ELSE [k |-> "key", i |-> 0, s |-> x]
e_parts(keyparts) ==
    [j \in 1..Len(SplitPath(keyparts)) |-> PathPart(SplitPath(keyparts)[j])]

\* traversed_value[i]: the item, or the exception raised
GetItem(v, i) ==
    CASE v.t = "dict" ->
            IF i.k = "key" /\ i.s \in DOMAIN Payload(v)
            THEN [s |-> "ok", v |-> Payload(v)[i.s]]
            ELSE [s |-> "KeyError", v |-> None]
      [] v.t \in {"list", "tuple", "str", "bytes", "rec"} ->
            IF i.k = "key" THEN [s |-> "TypeError", v |-> None]
            ELSE IF i.i < Len(PyIter(v)[2])
                 THEN [s |-> "ok", v |-> PyIter(v)[2][i.i + 1]]
                 ELSE [s |-> "IndexError", v |-> None]
      [] OTHER -> [s |-> "TypeError", v |-> None]

\* getattr(traversed_value, i): an attribute name must be a str
GetAttr(v, i) ==
    IF i.k = "idx" THEN [s |-> "TypeError", v |-> None]
    ELSE IF v.t \in {"rec", "var"} /\ i.s \in DOMAIN Payload(v)
         THEN [s |-> "ok", v |-> Payload(v)[i.s]]
         ELSE [s |-> "AttributeError", v |-> None]

\* the loop over e_parts: the sample yielded, or the exception that escapes
RECURSIVE Traverse(_, _)
Traverse(traversed_value, parts) ==
    LET i == Head(parts)
        attr(a) ==
            CASE a.s = "ok" -> Traverse(a.v, Tail(parts))
              [] a.s = "AttributeError" -> [s |-> "ok", sample |-> None]
              [] OTHER -> [s |-> a.s, sample |-> None]
        item(g) ==
            CASE g.s = "ok" -> Traverse(g.v, Tail(parts))
              [] g.s \in {"KeyError", "TypeError"} ->
                    Once({attr(a) : a \in {GetAttr(traversed_value, i)}})
              [] OTHER -> [s |-> g.s, sample |-> None]
    IN IF parts = <<>> THEN [s |-> "ok", sample |-> traversed_value]
       \* if not i: break
       ELSE IF (i.k = "key" /\ i.s = "") \/ (i.k = "idx" /\ i.i = 0)
            THEN [s |-> "ok", sample |-> traversed_value]
       ELSE Once({item(g) : g \in {GetItem(traversed_value, i)}})

\* iter_invalid(error, data): per path the InvalidData yielded (s = "ok")
\* or the exception raised when the generator reaches that path
iter_invalid(error, data) ==
    LET ps == asdict(error) IN
    [j \in 1..Len(ps) |->
        [path |-> ps[j],
         s |-> Traverse(data, e_parts(ps[j])).s,
         sample |-> Traverse(data, e_parts(ps[j])).sample]]

\* the types pairs are built for when their errors are iterated
IterTypes == BuildTypes \o <<"Tup_si", "Seq_X">>

IterBuild(i) ==
    /\ regs = <<>>
    /\ TypeConstructor_xor(IterTypes[i])

\* list(e) for the Error e a decode / encode call has raised
Iterate ==
    /\ pc = "ready"
    /\ call.op \in {"decode", "encode"} /\ call.res.s = "Error"
    /\ call' = [call EXCEPT !.op = "iter",
                   !.res = [s |-> "iterated",
                            items |-> iter_invalid(call.res.e, call.res.sample_data)]]
    /\ UNCHANGED <<steps, overrides, memo, unknown, regs, pc, sess, threads>>

NextIter ==
    \/ \E i \in 1..Len(IterTypes) : IterBuild(i)
    \/ FixupIter
    \/ \E i \in 1..Len(RawSamples(sess.typ)) : Decode(i)
    \/ \E i \in 1..Len(TypedSamples(sess.typ)) : Encode(i)
    \/ Iterate

SpecIter == Init /\ [][NextIter]_vars

\* following a whole path from the root of the input, every mapping key,
\* attribute and sequence index of it: <<TRUE, value>>, or <<FALSE, None>>
\* when a step does not exist
RECURSIVE Follow(_, _)
Follow(v, parts) ==
    LET i == Head(parts)
        step == IF i.k = "key"
                THEN IF v.t \in {"dict", "rec", "var"} /\ i.s \in DOMAIN Payload(v)
                     THEN <<TRUE, Payload(v)[i.s]>> ELSE <<FALSE, None>>
                ELSE IF v.t \in {"list", "tuple"} /\ i.i < Len(Payload(v))
                     THEN <<TRUE, Payload(v)[i.i + 1]>> ELSE <<FALSE, None>>
    IN IF parts = <<>> THEN <<TRUE, v>>
       ELSE IF i.k = "key" /\ i.s = "" THEN Follow(v, Tail(parts))
       ELSE IF step[1] THEN Follow(step[2], Tail(parts)) ELSE <<FALSE, None>>

Iterated == pc = "ready" /\ call.op = "iter"

\* C15: iterating the Error of a failed call raises nothing, and a record
\* whose path has a step that the original input lacks carries the sample
\* None.
C15_IterationNeverRaises ==
    Iterated =>
        \A j \in 1..Len(call.res.items) :
            LET r == call.res.items[j] IN
            /\ r.s = "ok"
            /\ ~Follow(call.arg, e_parts(r.path))[1] => r.sample.t = "none"

\* C16: a record whose whole path exists in the original input carries the
\* value found by following the whole path from the root of the input; for
\* a failure at the root that is the whole input.
C16_SampleAtPath ==
    Iterated =>
        \A j \in 1..Len(call.res.items) :
            LET r == call.res.items[j]
                f == Follow(call.arg, e_parts(r.path))
            IN f[1] => (r.s = "ok" /\ ValEq(r.sample, f[2]))

-----------------------------------------------------------------------------
(* Defaults of record fields.                                              *)

\* the attribute is declared Optional[...]: a union with None
IsOptional(f) ==
    /\ Types[f.type].kind = "union"
    /\ \E k \in 1..Len(Types[f.type].args) : Types[f.type].args[k] = "None"

\* the error of a failed call is a required-field error
ReportsRequired(e) ==
    \E k \in 1..Len(e.subs) : e.subs[k].e.msg = "Required"

\* C17: decoding a raw mapping for a record: when an attribute without
\* default that is not optional has its wire key absent, decode fails with
\* a required-field error; otherwise a record that decode returns
\* carries, for every attribute whose wire key is absent, the declared
\* default, or None for an optional attribute without default.
C17_MissingFieldDefaults ==
    ( /\ FirstCall("decode")
      /\ Types[sess.typ].kind = "record"
      /\ call.arg.t = "dict" )
    => LET fs == Types[sess.typ].fields
           absent(k) == WireOf(sess.typ, fs[k], sess.ov) \notin DOMAIN Payload(call.arg)
           needed == {k \in 1..Len(fs) :
                         absent(k) /\ ~fs[k].hasdef /\ ~IsOptional(fs[k])}
       IN IF needed # {}
          THEN call.res.s = "Error" /\ ReportsRequired(call.res.e)
          ELSE call.res.s = "ok" =>
                  /\ call.res.v.t = "rec"
                  /\ \A k \in 1..Len(fs) : absent(k) =>
                        ValEq(Payload(call.res.v)[fs[k].name],
                              IF fs[k].hasdef THEN fs[k].def ELSE None)

-----------------------------------------------------------------------------
(* Layout errors of the dict-tag encoding.                                 *)

\* the root node of the returned pair is a tagged union in the dict-tag
\* encoding
DictTagSum ==
    /\ pc = "ready"
    /\ sess.typ = "Either"
    /\ sess.root.st.k = "Sum"
    /\ sess.root.st.as_dict_key # ""
LayoutMessages == {"tag is not present as key", "payload is not a mapping"}

\* C18: in the dict-tag encoding, decode of a raw value, null and None
\* aside, that is not a mapping or that is a mapping without the tag key
\* fails with the incorrect-layout validation error.
C18_DictTagLayoutError ==
    ( /\ DictTagSum
      /\ FirstCall("decode")
      /\ ~IsNullOrNone(call.arg)
      /\ \/ call.arg.t # "dict"
         \/ sess.root.st.as_dict_key \notin DOMAIN Payload(call.arg) )
    => (call.res.s = "Error" /\ call.res.e.msg \in LayoutMessages)

-----------------------------------------------------------------------------
(* The order of the recognizers.                                           *)

\* the order the recognizers are said to be tried in
ClaimedOrder ==
    <<"forward_ref", "overridden", "none", "primitive", "type_var", "newtype",
      "union", "sequence", "tuple", "dict", "set", "literal", "sum_type",
      "subclass_based", "user_type">>

\* node is what the recognizer builds for the type
BuiltBy(rec, t, node, ov) ==
    CASE rec = "forward_ref" ->
            node.cls = "SchemaNode" /\ node.st.k = "ForwardReferenceType" /\ node.st.ref = t
      [] rec = "overridden"  ->
            /\ node.cls = "SchemaNode"
            /\ node.st = [k |-> ov[ExtKey(t)], strict |-> TRUE, ext |-> t]
      [] rec = "primitive"   ->
            /\ node.cls = "SchemaNode"
            /\ node.st = PRIMITIVES_REGISTRY(NonStrictPrimitives \in DOMAIN ov, t)
      [] rec = "union"       ->
            node.cls = "SchemaNode" /\ node.st.k \in {"Union", "AcceptEverything"}
      [] rec = "sequence"    -> node.cls = "SequenceSchema"
      [] rec = "tuple"       -> node.cls = "TupleSchema"
      [] rec = "sum_type"    ->
            node.cls = "SchemaNode" /\ node.st.k = "Sum" /\ node.st.typ = t
      [] rec = "user_type"   ->
            node.cls = "SchemaNode" /\ node.st.k = "Structure" /\ node.st.typ = t
      [] OTHER               -> FALSE

\* the memo a step of a build call started from
MemoBefore == IF pc = "fixup" THEN sess.memo ELSE memo

\* the step is the first resolve pass of a build call
BuildStep == pc # "fixup" /\ pc' \in {"fixup", "failed"}

\* C19: every node a build step stores for a type is the node of the first
\* recognizer, in the order forward reference, user extension, None,
\* primitive, type parameter, alias, union, sequence, tuple, mapping, set,
\* literal, tagged union, subclass-based leaf, record, that applies to the
\* type: an extension registered for a type wins over its built-in handling
\* and a record node is stored only for a type no other recognizer applies to;
\* a build call for a type that is no memo key and has an extension
\* registered returns the extension's node.
C19_FirstRecognizerWins ==
    [][/\ \A t \in (DOMAIN sess'.memo) \ (DOMAIN MemoBefore) :
             BuiltBy(FirstRecognizer(ClaimedOrder, t, sess'.ov), t,
                     sess'.memo[t], sess'.ov)
       /\ ( /\ BuildStep
            /\ sess'.typ \notin DOMAIN memo
            /\ FirstRecognizer(ClaimedOrder, sess'.typ, sess'.ov) = "overridden" )
          => ( /\ pc' = "fixup"
               /\ BuiltBy("overridden", sess'.typ, sess'.root, sess'.ov) )]_vars

\* a pair was built for a record with a field of a type that has both an
\* extension and a built-in recognizer
C19_Witness ==
    /\ pc = "ready"
    /\ sess.typ = "V"
    /\ ExtKey("Tup_var") \in DOMAIN sess.ov
    /\ "Tup_var" \in DOMAIN sess.memo
    /\ sess.memo["Tup_var"].st.k = "AcceptEverything"
    /\ sess.memo["V"].st.k = "Structure"

-----------------------------------------------------------------------------
(* The memo of resolve.                                                    *)

\* every entry of memo m is an entry of memo n
Kept(m, n) == \A t \in DOMAIN m : t \in DOMAIN n /\ n[t] = m[t]

\* C20: a build call for a type that is a memo key returns the stored node
\* and leaves the memo and the forward-reference table of the call as they
\* were; a build call for a type that is no key stores the node it returns
\* under the type; and no step of a builder replaces or removes an entry of
\* its memo or of the memo of the call in progress.
C20_MemoConsultedFirst ==
    [][/\ (BuildStep /\ sess'.typ \in DOMAIN memo)
          => ( /\ pc' = "fixup"
               /\ sess'.root = memo[sess'.typ]
               /\ sess'.memo = memo
               /\ regs'[Len(regs')] = <<>> )
       /\ (BuildStep /\ sess'.typ \notin DOMAIN memo /\ pc' = "fixup")
          => ( /\ sess'.typ \in DOMAIN sess'.memo
               /\ sess'.memo[sess'.typ] = sess'.root )
       /\ (BuildStep /\ pc' = "fixup") => Kept(memo, sess'.memo)
       /\ (pc = "fixup" /\ pc' \in {"fixup", "ready"}) => Kept(sess.memo, sess'.memo)
       /\ steps' = steps => Kept(memo, memo')]_vars

\* the second build call of a builder was for a recursive record that was
\* a memo key: its table of forward references stayed empty
C20_Witness ==
    /\ pc = "ready"
    /\ Len(regs) = 2
    /\ sess.typ = "Tree"
    /\ regs[2] = <<>>
    /\ sess.root = memo["Tree"]

-----------------------------------------------------------------------------
(* The life of a forward-reference table.                                  *)

\* C21: the table a build call creates holds, when the first resolve pass
\* returns, only placeholders registered as unresolved; placeholders are
\* bound only by the steps of the fix-up loop, after the outermost resolve
\* call has returned; and a bound placeholder keeps its node in every later
\* step of the builder.
C21_TableLifeCycle ==
    [][/\ (BuildStep /\ pc' = "fixup")
          => ( /\ Len(regs') = Len(regs) + 1
               /\ \A i \in 1..Len(regs'[Len(regs')]) : ~regs'[Len(regs')][i].bound )
       /\ steps' = steps
          => \A n \in 1..Len(regs) :
                /\ n <= Len(regs')
                /\ \A i \in 1..Len(regs[n]) :
                      /\ i <= Len(regs'[n])
                      /\ regs'[n][i].ref = regs[n][i].ref
                      /\ regs[n][i].bound => regs'[n][i] = regs[n][i]
                      /\ (~regs[n][i].bound /\ regs'[n][i].bound) => pc = "fixup"]_vars

\* a build call for a recursive record ended with its one placeholder bound
C21_Witness ==
    /\ pc = "ready"
    /\ sess.typ = "Tree"
    /\ Len(regs[Len(regs)]) = 1
    /\ regs[Len(regs)][1].bound
    /\ regs[Len(regs)][1].node = sess.root

-----------------------------------------------------------------------------
(* The variants a union tries.                                             *)

\* the root node of the returned pair is a union
UnionRoot == pc = "ready" /\ sess.root.cls = "SchemaNode" /\ sess.root.st.k = "Union"

\* the variants of the root union in the order they are to be tried for the
\* value: the variant the exact-primitive attempt is made with, when it is
\* made, then the others as declared
TryOrder(value) ==
    LET vs == sess.root.st.variants
        idx == [i \in 1..Len(vs) |-> i]
        prim == PrimitiveTypeOf(sess.root.st.nonstrict, value)
        exact(i) == prim[1] /\ IsSchemaType(vs[i].node.st, prim[2])
    IN SelectSeq(idx, exact) \o SelectSeq(idx, LAMBDA i : ~exact(i))

\* the outcome of variant i of the root union on the raw value
VariantDecodes(i, raw) ==
    SchemaNode_deserialize(sess.root.st.variants[i].node, raw, MaxDepth - 1)

\* C22: decode of a raw value, null and None aside, by a union whose
\* variants each decode it or reject it: when a variant decodes it the
\* result is that of the first such variant, the variant of the
\* exact-primitive attempt taken first and the others in declared order; when none
\* does, decode fails with one error that has exactly one sub-error for each
\* variant of the union, the one that variant raised.
C22_UnionTriesInOrder ==
    ( /\ UnionRoot
      /\ FirstCall("decode")
      /\ ~IsNullOrNone(call.arg)
      /\ \A i \in 1..Len(sess.root.st.variants) :
            VariantDecodes(i, call.arg).s \in {"ok", "invalid"} )
    => LET n == Len(sess.root.st.variants)
           order == TryOrder(call.arg)
           good == {k \in 1..n : VariantDecodes(order[k], call.arg).s = "ok"}
       IN IF good # {}
          THEN /\ call.res.s = "ok"
               /\ call.res.v = VariantDecodes(
                     order[CHOOSE k \in good : \A j \in good : k <= j], call.arg).v
          ELSE /\ call.res.s = "Error"
               /\ Len(call.res.e.subs) = n
               /\ \A k \in 1..n :
                     call.res.e.subs[k].e = VariantDecodes(order[k], call.arg).e

\* a union tried all of its variants and none decoded the value
C22_Witness ==
    /\ UnionRoot
    /\ FirstCall("decode")
    /\ sess.typ = "U_sif"
    /\ call.res.s = "Error"
    /\ Len(call.res.e.subs) = 3

-----------------------------------------------------------------------------
(* The variant a union encodes with.                                       *)

\* the matching criterion of a variant on the runtime type of the value; a
\* variant written as a forward reference stands for the type it names
VariantMatches(value, x) ==
    LET tt == IF Types[x.typ].kind = "fref" /\ Types[x.typ].target # ""
              THEN Types[x.typ].target ELSE x.typ
        kind == Types[tt].kind
    IN CASE kind = "seq"    -> value.t = "list"
         [] kind = "tuple"  -> value.t \in {"tuple", "rec"}
         [] kind = "prim"   -> value.t = tt \/ (value.t = "bool" /\ tt = "int")
         [] kind = "record" -> value.t = "rec" /\ value.c = tt
         [] kind = "sum"    -> /\ value.t = "var"
                               /\ \E i \in 1..Len(Types[tt].fields) :
                                     Types[tt].fields[i].type = value.c
         [] OTHER -> FALSE

\* the outcome of variant i of the root union on the typed value
VariantEncodes(i, value) ==
    SchemaNode_serialize(sess.root.st.variants[i].node, value, MaxDepth - 1)

\* the node of field p of the record Q, a union with one variant written as
\* a forward reference
FieldP == sess.root.children[2]

\* C23: encode of a value, None aside, by a union: a value that meets no
\* variant's matching criterion fails, and a value that the first variant
\* it matches (the variant of the exact-primitive attempt taken first, the
\* others in declared order) encodes is encoded as that variant encodes it;
\* the same for the union of a record field, where a value of a class that
\* is not the variant's fails.
C23_UnionEncodesByType ==
    /\ (UnionRoot /\ FirstCall("encode") /\ ~IsNullOrNone(call.arg))
       => LET n == Len(sess.root.st.variants)
              order == TryOrder(call.arg)
              match == {k \in 1..n :
                          VariantMatches(call.arg, sess.root.st.variants[order[k]])}
              first == order[CHOOSE k \in match : \A j \in match : k <= j]
          IN IF match = {} THEN call.res.s # "ok"
             ELSE VariantEncodes(first, call.arg).s = "ok"
                     => ( /\ call.res.s = "ok"
                          /\ call.res.v = VariantEncodes(first, call.arg).v )
    /\ ( /\ FirstCall("encode")
         /\ sess.typ = "Q"
         /\ call.arg.t = "rec"
         /\ call.arg.c = "Q"
         /\ ~IsNullOrNone(Payload(call.arg)["p"])
         /\ \A k \in 1..Len(FieldP.st.variants) :
               ~VariantMatches(Payload(call.arg)["p"], FieldP.st.variants[k]) )
       => call.res.s # "ok"

-----------------------------------------------------------------------------
(* Null and the unions.                                                    *)

\* C24: field p of the record Q is a union declared with None: a raw
\* mapping that decodes gives p = None both when p is an explicit null and
\* when p is absent; a union declared without None at the root of a pair
\* does not decode an explicit null: decode fails.
C24_NullOnlyThroughMissing ==
    /\ ( /\ FirstCall("decode")
         /\ sess.typ = "Q"
         /\ call.arg.t = "dict"
         /\ call.res.s = "ok"
         /\ \/ "p" \notin DOMAIN Payload(call.arg)
            \/ Payload(call.arg)["p"].t = "none" )
       => (call.res.v.t = "rec" /\ Payload(call.res.v)["p"].t = "none")
    /\ (UnionRoot /\ FirstCall("decode") /\ call.arg.t = "none")
       => call.res.s = "Error"

-----------------------------------------------------------------------------
(* The payload error of a tagged union.                                    *)

\* the variants of the root tagged union whose tag value is the tag of the
\* raw pair
TaggedBy(raw) ==
    {i \in 1..Len(sess.root.st.variants) :
        sess.root.st.variants[i].value = Payload(Payload(raw)[1])}

\* the outcome of the payload of the raw pair under variant i
PayloadDecodes(i, raw) ==
    SchemaNode_deserialize(sess.root.st.variants[i].node, Payload(raw)[2],
                           MaxDepth - 1)

\* C25: in the two-element encoding, when the tag of the raw pair is a
\* variant's tag value and that variant rejects the payload, decode fails
\* with an error that names the variant's payload and has the error the
\* payload raised among its sub-errors.
C25_PayloadErrorCarried ==
    (TwoElementSum /\ FirstCall("decode") /\ IsPair(call.arg))
    => \A i \in TaggedBy(call.arg) :
          PayloadDecodes(i, call.arg).s = "invalid"
          => /\ call.res.s = "Error"
             /\ call.res.e.msg = "Incorrect payload format"
             /\ \E k \in 1..Len(call.res.e.subs) :
                   call.res.e.subs[k].e = PayloadDecodes(i, call.arg).e

-----------------------------------------------------------------------------
(* What the fix-up loop binds a placeholder to.                            *)

\* C26: every placeholder a step of the fix-up loop binds is bound, when
\* its forward reference has an evaluated target, to the node the memo holds
\* for the target after the step, which is the node the memo held before the
\* step when the target was already built, and otherwise to the root node of
\* the build call.
C26_FixupBindsTarget ==
    [][(pc = "fixup" /\ pc' = "fixup")
       => \A i \in 1..Len(regs[Len(regs)]) :
             LET old == regs[Len(regs)][i]
                 new == regs'[Len(regs)][i]
                 target == Types[old.ref].target
             IN (~old.bound /\ new.bound)
                => IF target = "" THEN new.node = sess.root
                   ELSE /\ target \in DOMAIN sess'.memo
                        /\ new.node = sess'.memo[target]
                        /\ target \in DOMAIN sess.memo => new.node = sess.memo[target]]_vars

\* a build call for a recursive alias ended: the placeholder of its
\* unevaluated forward reference is bound to the root node
C26_Witness ==
    /\ pc = "ready"
    /\ sess.typ = "J"
    /\ Len(regs[Len(regs)]) = 1
    /\ Types[regs[Len(regs)][1].ref].target = ""
    /\ regs[Len(regs)][1].bound
    /\ regs[Len(regs)][1].node = sess.root

-----------------------------------------------------------------------------
(* The two forms of a build call.                                          *)

\* what builder ^ T builds for the type of the session on a builder with an
\* empty memo
XorBuild ==
    decide_node_type(sess.typ, overrides,
        [memo |-> EmptyMap, frefs |-> <<>>, unk |-> EmptyMap, reg |-> Len(regs)])

\* C27: the first build call of a builder, made in the call form
\* builder(T), runs with the override set accumulated on the builder and
\* returns the node that builder ^ T returns.
C27_CallFormLikeXor ==
    ( /\ pc = "ready"
      /\ sess.form = "call"
      /\ Len(regs) = 1
      /\ sess.typ \in NoRefTypes )
    => (sess.ov = overrides /\ sess.root = XorBuild.node)

-----------------------------------------------------------------------------
(* Override items of an unrecognised kind.                                 *)

\* the item list has an item of an unrecognised kind
HasOtherItem(items) == \E k \in 1..Len(items) : items[k].kind = "other"

\* C28: composing a builder with items of which one is of an unrecognised
\* kind yields a builder whose override set has every key the receiver's
\* had and, for the keys no other item of the list sets, the same value.
C28_UnknownItemIgnored ==
    [][\A i \in 1..Len(OverrideItems) :
          (Override(i) /\ HasOtherItem(OverrideItems[i]))
          => \A k \in DOMAIN overrides :
                /\ k \in DOMAIN overrides'
                /\ (\A j \in 1..Len(OverrideItems[i]) : OverrideItems[i][j].key # k)
                   => overrides'[k] = overrides[k]]_vars

-----------------------------------------------------------------------------
(* Failed build calls and the nodes of the memo.                           *)

\* the build call ends with a TypeError in this step
FailStep == pc # "failed" /\ pc' = "failed"

\* C29: a build call that fails leaves the builder's memo, the settings of
\* the nodes in it and the override set as they were before the call.
C29_FailedBuildLeavesBuilder ==
    [][FailStep =>
          /\ memo' = memo
          /\ overrides' = overrides
          /\ \A t \in DOMAIN memo :
                t \in DOMAIN unknown => unknown'[t] = unknown[t]]_vars

\* the two maps alone: self.memo is assigned only after the fix-up loop and
\* self.overrides is never assigned by a build call
FailedBuildKeepsMaps == [][FailStep => (memo' = memo /\ overrides' = overrides)]_vars

\* C30: no step of a build call changes the schema-type setting for unknown
\* keys of a node that was in the builder's memo before the step.
C30_MemoizedNodesFrozen ==
    [][memo' # EmptyMap =>
          \A t \in DOMAIN memo :
             t \in DOMAIN unknown => unknown'[t] = unknown[t]]_vars
====
